---------------------------- MODULE Spec2Model ----------------------------
(***************************************************************************)
(* Memory handling and MMU of 86Box (src/src/mem.c): the translation       *)
(* caches, the region registry and its chunk dispatch tables, the logical  *)
(* access entry points, the page write handlers with the eviction list,    *)
(* and the A20 gate.                                                        *)
(*                                                                         *)
(* Addresses are the program's 32-bit addresses.  A pointer into the RAM   *)
(* buffer is the integer offset from `ram`; a 64-bit mask is the set of    *)
(* its set bit numbers.                                                     *)
(***************************************************************************)
EXTENDS Integers, Sequences, FiniteSets, TLC

VARIABLES
    (* translation caches *)
    readlookup, readlookup2, readlnext,
    writelookup, writelookup2, page_lookup, writelnext,
    (* code-block bookkeeping of the physical page table *)
    pblock, recomp_page,
    (* region registry, chunk dispatch tables and visibility policies *)
    base_mapping, mapping, read_mapping, write_mapping, mem_exec, mem_state,
    in_smm,
    (* A20 gate, machine class and build variant *)
    rammask, mem_a20_key, mem_a20_alt, mem_a20_state, AT, cpu_16bitbus,
    new_dynarec,
    (* RAM, the physical page table and the eviction list *)
    ram, pages, byte_dirty_mask, byte_code_present_mask,
    purgable_page_list_head, purgeable_page_count, codegen_in_recompile,
    (* what the entry points consume from the CPU core *)
    cr0, cr3, cr4, CPL, cpl_override, mem_logical_addr,
    (* the fault sink: cpu_state.abrt (nonzero), cr2 and abrt_error *)
    abrt, cr2, abrt_error,
    (* virtual pages whose paging-structure entries were written since they
       entered the read cache *)
    touched,
    (* which part of the program a run exercises *)
    focus,
    (* channel 0 of the CMI8330 sound card: its FIFO and the two counters *)
    dma,
    (* history of the run, for stating the claims *)
    last, rcalls, wcalls, nops

tlbvars == <<readlookup, readlookup2, readlnext,
             writelookup, writelookup2, page_lookup, writelnext>>
cgvars  == <<pblock, recomp_page>>
regvars == <<base_mapping, mapping, read_mapping, write_mapping, mem_exec,
             mem_state, in_smm>>
a20vars == <<rammask, mem_a20_key, mem_a20_alt, mem_a20_state>>
cfgvars == <<AT, cpu_16bitbus, new_dynarec>>
memvars == <<ram, pages, byte_dirty_mask, byte_code_present_mask,
             purgable_page_list_head, purgeable_page_count>>
cpuvars == <<cr0, cr3, cr4, CPL, cpl_override, abrt, cr2, abrt_error>>
physvars == <<memvars, codegen_in_recompile, cpuvars, mem_logical_addr, touched>>
sndvars == <<dma>>
histvars == <<focus, last, rcalls, wcalls, nops>>
vars == <<tlbvars, cgvars, regvars, a20vars, cfgvars, sndvars, physvars, histvars>>

\* CMI_FIFO_SZ
CMI_FIFO_SZ == 16
\* the bytes of cmi8330_dma_t between fifo[CMI_FIFO_SZ - 1] and fifo_pos:
\* fifo starts at offset 5 and the uint32_t fifo_pos is aligned to 4
FifoPad == 3
\* the channel after cmi8330_init: the device is allocated with calloc and
\* fifo_pos = fifo_end = 0
DmaReset == [fifo |-> [i \in 0 .. CMI_FIFO_SZ + FifoPad - 1 |-> 0],
             fifo_pos |-> 0, fifo_end |-> 0]

-----------------------------------------------------------------------------
(* Bounds of the model *)

\* log2 of the number of ring slots of each translation cache
CacheBits == 1

-----------------------------------------------------------------------------
(* Arithmetic on machine words *)

RECURSIVE Pow2(_)
Pow2(n) == IF n = 0 THEN 1 ELSE 2 * Pow2(n - 1)

RECURSIVE BitAnd(_, _)
BitAnd(a, b) ==
    IF a = 0 \/ b = 0 THEN 0
    ELSE 2 * BitAnd(a \div 2, b \div 2) + (IF a % 2 = 1 /\ b % 2 = 1 THEN 1 ELSE 0)

RECURSIVE BitOr(_, _)
BitOr(a, b) ==
    IF a = 0 THEN b
    ELSE IF b = 0 THEN a
    ELSE 2 * BitOr(a \div 2, b \div 2) + (IF a % 2 = 1 \/ b % 2 = 1 THEN 1 ELSE 0)

\* x >> 12 and x & ~0xfff
PageOf(x) == x \div 4096
PageBase(x) == x - (x % 4096)

\* 0xffffffff, the logical address the physical accessors leave behind, read
\* as a signed 32-bit number
NO_LOGICAL == -1

-----------------------------------------------------------------------------
(* Translation caches *)

\* the value of an unused ring slot or reverse-mapping entry ((uintptr_t) -1)
EMPTY == -1
\* a NULL page_t pointer in page_lookup
NULLPAGE == -1

cachesize == Pow2(CacheBits)
RingSlots == 0 .. (cachesize - 1)
\* virtual pages of the translation-cache model: one more than the capacity
TlbPages == 0 .. cachesize
\* physical pages of the translation-cache model
PhysPagesTlb == {0, 1}

\* the caches as one value
TLB == [readlookup |-> readlookup, readlookup2 |-> readlookup2,
        readlnext |-> readlnext,
        writelookup |-> writelookup, writelookup2 |-> writelookup2,
        page_lookup |-> page_lookup, writelnext |-> writelnext]

SetTLB(t) ==
    /\ readlookup' = t.readlookup
    /\ readlookup2' = t.readlookup2
    /\ readlnext' = t.readlnext
    /\ writelookup' = t.writelookup
    /\ writelookup2' = t.writelookup2
    /\ page_lookup' = t.page_lookup
    /\ writelnext' = t.writelnext

\* the host pointer of the physical page, the virtual page not subtracted
HostBiasPhys(virt, phys) == PageBase(phys)

\* &ram[(phys & ~0xFFF) - (virt & ~0xfff)], as an offset from ram
HostBias(virt, phys) == PageBase(phys) - PageBase(virt)

\* resetreadlookup: every table cleared, ring pointers at 0
resetreadlookup(t) ==
    [readlookup |-> [c \in DOMAIN t.readlookup |-> EMPTY],
     readlookup2 |-> [v \in DOMAIN t.readlookup2 |-> EMPTY],
     readlnext |-> 0,
     writelookup |-> [c \in DOMAIN t.writelookup |-> EMPTY],
     writelookup2 |-> [v \in DOMAIN t.writelookup2 |-> EMPTY],
     page_lookup |-> [v \in DOMAIN t.page_lookup |-> NULLPAGE],
     writelnext |-> 0]

\* a flush that leaves the caches as they are
flushmmucache_none(t) == t

\* flushmmucache, flushmmucache_nopc, flushmmucache_cr3: the loop over the
\* ring slots clears the reverse mapping of every page a slot names
flushmmucache_cr3(t) ==
    [t EXCEPT
       !.readlookup2 = [v \in DOMAIN t.readlookup2 |->
            IF \E c \in DOMAIN t.readlookup : t.readlookup[c] = v
            THEN EMPTY ELSE t.readlookup2[v]],
       !.readlookup = [c \in DOMAIN t.readlookup |-> EMPTY],
       !.page_lookup = [v \in DOMAIN t.page_lookup |->
            IF \E c \in DOMAIN t.writelookup : t.writelookup[c] = v
            THEN NULLPAGE ELSE t.page_lookup[v]],
       !.writelookup2 = [v \in DOMAIN t.writelookup2 |->
            IF \E c \in DOMAIN t.writelookup : t.writelookup[c] = v
            THEN EMPTY ELSE t.writelookup2[v]],
       !.writelookup = [c \in DOMAIN t.writelookup |-> EMPTY]]

flushmmucache(t) == flushmmucache_cr3(t)

\* the ring pointer left where it is
RingAdvanceStuck(n) == n

\* readlnext++; readlnext &= (cachesize-1)
RingAdvance(n) == BitAnd(n + 1, cachesize - 1)

addreadlookup(t, virt, phys) ==
    IF virt = NO_LOGICAL THEN t
    ELSE IF t.readlookup2[PageOf(virt)] # EMPTY THEN t
    ELSE
      LET old == t.readlookup[t.readlnext]
          r2  == IF old # EMPTY
                 THEN [t.readlookup2 EXCEPT ![old] = EMPTY]
                 ELSE t.readlookup2
      IN [t EXCEPT
            !.readlookup2 = [r2 EXCEPT ![PageOf(virt)] = HostBias(virt, phys)],
            !.readlookup = [t.readlookup EXCEPT ![t.readlnext] = PageOf(virt)],
            !.readlnext = RingAdvance(t.readlnext)]

\* pages[phys >> 12].block || (phys & ~0xfff) == recomp_page
HasCodeBlock(blk, recomp, phys) ==
    blk[PageOf(phys)] \/ PageBase(phys) = recomp

addwritelookup(t, blk, recomp, virt, phys) ==
    IF virt = NO_LOGICAL THEN t
    ELSE IF t.page_lookup[PageOf(virt)] # NULLPAGE THEN t
    ELSE
      LET old == t.writelookup[t.writelnext]
          pl  == IF old # EMPTY
                 THEN [t.page_lookup EXCEPT ![old] = NULLPAGE]
                 ELSE t.page_lookup
          w2  == IF old # EMPTY
                 THEN [t.writelookup2 EXCEPT ![old] = EMPTY]
                 ELSE t.writelookup2
      IN [t EXCEPT
            !.page_lookup = IF HasCodeBlock(blk, recomp, phys)
                            THEN [pl EXCEPT ![PageOf(virt)] = PageOf(phys)]
                            ELSE pl,
            !.writelookup2 = IF HasCodeBlock(blk, recomp, phys)
                             THEN w2
                             ELSE [w2 EXCEPT ![PageOf(virt)] = HostBias(virt, phys)],
            !.writelookup = [t.writelookup EXCEPT ![t.writelnext] = PageOf(virt)],
            !.writelnext = RingAdvance(t.writelnext)]

\* one iteration of the loop of mem_flush_write_page, for ring slot c
FlushWriteSlot(t, c, addr, virt) ==
    LET v == t.writelookup[c] IN
    IF v # EMPTY /\ (t.writelookup2[v] = HostBias(virt, addr)
                     \/ t.page_lookup[v] = PageOf(addr))
    THEN [t EXCEPT !.writelookup2 = [t.writelookup2 EXCEPT ![v] = EMPTY],
                   !.page_lookup = [t.page_lookup EXCEPT ![v] = NULLPAGE],
                   !.writelookup = [t.writelookup EXCEPT ![c] = EMPTY]]
    ELSE t

RECURSIVE FlushWriteFrom(_, _, _, _)
FlushWriteFrom(t, c, addr, virt) ==
    IF c \notin DOMAIN t.writelookup THEN t
    ELSE FlushWriteFrom(FlushWriteSlot(t, c, addr, virt), c + 1, addr, virt)

mem_flush_write_page(t, addr, virt) == FlushWriteFrom(t, 0, addr, virt)

\* addr & (w - 1), and the page-crossing tests (addr & 0xfff) > 0x1000 - w
Misaligned(addr, w) == addr % w # 0
CrossesPage(addr, w) == (addr % 4096) > 4096 - w

\* where writemembl (w = 1) and writememwl, writememll, writememql send a
\* write of width w at logical address addr: a misaligned access crossing a
\* page is split, a misaligned one within a page is stored through the
\* host pointer of writelookup2 when there is one, otherwise the page entry
\* of page_lookup handles it when there is one, otherwise the write is
\* translated and dispatched
WriteRoute(t, addr, w) ==
    IF w = 1
    THEN IF t.page_lookup[PageOf(addr)] # NULLPAGE THEN "page" ELSE "dispatch"
    ELSE IF Misaligned(addr, w) /\ CrossesPage(addr, w) THEN "split"
    ELSE IF Misaligned(addr, w) /\ t.writelookup2[PageOf(addr)] # EMPTY THEN "direct"
    ELSE IF t.page_lookup[PageOf(addr)] # NULLPAGE THEN "page"
    ELSE "dispatch"

-----------------------------------------------------------------------------------------------------------------------------------------------------
(* Region registry and chunk dispatch tables                                *)
(*                                                                          *)
(* Bases and sizes are counted in chunks of 4 KiB, so every range is        *)
(* chunk-aligned.  The chunk tables are followed on the chunks RegChunks;   *)
(* the entry of a chunk depends on no other chunk's entry.                  *)

\* the RAM mappings mem_reset registers and two mappings of devices
Maps == {"ram_low", "ram_high", "ram_mid", "ram_remapped", "devA", "devB"}
DevMaps == {"devA", "devB"}
NOMAP == "NULL"
NOEXEC == [buf |-> "NULL", off |-> 0]

\* configured RAM in KB, and KB in chunks
mem_size == 640
KB(n) == n \div 4

\* chunks followed: conventional RAM, the video window, above 1 MiB
RegChunks == {0, 160, 256}

\* a mem_mapping_t and a _mem_state entry in static storage
MapZero == [next |-> NOMAP, enable |-> FALSE, base |-> 0, size |-> 0,
            rd |-> FALSE, wr |-> FALSE, exec |-> NOEXEC, flags |-> {}]
StateZero == [r |-> "ANY", w |-> "ANY", sr |-> "ANY", sw |-> "ANY"]

\* the state mem.c works on, as one record, and its assignment
Machine ==
    [tlb |-> TLB, pblock |-> pblock,
     base_mapping |-> base_mapping, mapping |-> mapping,
     read_mapping |-> read_mapping, write_mapping |-> write_mapping,
     mem_exec |-> mem_exec, mem_state |-> mem_state,
     rammask |-> rammask, mem_a20_key |-> mem_a20_key,
     mem_a20_alt |-> mem_a20_alt, mem_a20_state |-> mem_a20_state]

SetMachine(r) ==
    /\ SetTLB(r.tlb)
    /\ pblock' = r.pblock
    /\ base_mapping' = r.base_mapping
    /\ mapping' = r.mapping
    /\ read_mapping' = r.read_mapping
    /\ write_mapping' = r.write_mapping
    /\ mem_exec' = r.mem_exec
    /\ mem_state' = r.mem_state
    /\ rammask' = r.rammask
    /\ mem_a20_key' = r.mem_a20_key
    /\ mem_a20_alt' = r.mem_a20_alt
    /\ mem_a20_state' = r.mem_a20_state

\* the caches as resetreadlookup leaves them
TlbEmpty ==
    [readlookup |-> [c \in RingSlots |-> EMPTY],
     readlookup2 |-> [v \in TlbPages |-> EMPTY],
     readlnext |-> 0,
     writelookup |-> [c \in RingSlots |-> EMPTY],
     writelookup2 |-> [v \in TlbPages |-> EMPTY],
     page_lookup |-> [v \in TlbPages |-> NULLPAGE],
     writelnext |-> 0]

\* static storage before mem_reset has run, with caches t
MachineZero(t) ==
    [tlb |-> t, pblock |-> [p \in PhysPagesTlb |-> FALSE],
     base_mapping |-> [next |-> NOMAP], mapping |-> [m \in Maps |-> MapZero],
     read_mapping |-> [c \in RegChunks |-> NOMAP],
     write_mapping |-> [c \in RegChunks |-> NOMAP],
     mem_exec |-> [c \in RegChunks |-> NOEXEC],
     mem_state |-> [c \in RegChunks |-> StateZero],
     rammask |-> {}, mem_a20_key |-> 0, mem_a20_alt |-> 0, mem_a20_state |-> 0]

\* the variables hold the state r
InitMachine(r) ==
    /\ readlookup = r.tlb.readlookup
    /\ readlookup2 = r.tlb.readlookup2
    /\ readlnext = r.tlb.readlnext
    /\ writelookup = r.tlb.writelookup
    /\ writelookup2 = r.tlb.writelookup2
    /\ page_lookup = r.tlb.page_lookup
    /\ writelnext = r.tlb.writelnext
    /\ pblock = r.pblock
    /\ base_mapping = r.base_mapping
    /\ mapping = r.mapping
    /\ read_mapping = r.read_mapping
    /\ write_mapping = r.write_mapping
    /\ mem_exec = r.mem_exec
    /\ mem_state = r.mem_state
    /\ rammask = r.rammask
    /\ mem_a20_key = r.mem_a20_key
    /\ mem_a20_alt = r.mem_a20_alt
    /\ mem_a20_state = r.mem_a20_state

\* the normal policy whatever the CPU mode
PolicyOfNormal(normal, smm) == normal

\* the policy that decides: the SMM one in SMM unless it is NORMAL
PolicyOf(normal, smm) == IF in_smm /\ smm # "NORMAL" THEN smm ELSE normal

PolicyAllows(policy, flags, exec) ==
    CASE policy = "DISABLED"    -> FALSE
      [] policy = "ANY"         -> TRUE
      [] policy = "EXTERNAL"    -> "INTERNAL" \notin flags /\ "ROMCS" \notin flags
      [] policy = "ROMCS"       -> "INTERNAL" \notin flags /\ "ROMCS" \in flags
      [] policy = "EXTANY"      -> "INTERNAL" \notin flags
      [] policy = "EXTERNAL_EX" -> IF exec THEN "EXTERNAL" \notin flags
                                           ELSE "INTERNAL" \notin flags
      [] policy = "INTERNAL"    -> "EXTERNAL" \notin flags
      [] OTHER                  -> FALSE

\* the read check with the exec argument ignored
mem_mapping_read_allowed_noexec(flags, state, exec) ==
    PolicyAllows(PolicyOf(state.r, state.sr), flags, FALSE)

mem_mapping_read_allowed(flags, state, exec) ==
    PolicyAllows(PolicyOf(state.r, state.sr), flags, exec)

\* no MEM_WRITE_EXTERNAL_EX: the write check has no exec argument
mem_mapping_write_allowed(flags, state) ==
    LET policy == PolicyOf(state.w, state.sw)
    IN  policy # "EXTERNAL_EX" /\ PolicyAllows(policy, flags, FALSE)

\* the mappings reachable from base_mapping, in list order
RECURSIVE ListFrom(_, _, _)
ListFrom(r, m, fuel) ==
    IF m = NOMAP \/ fuel = 0 THEN << >>
    ELSE << m >> \o ListFrom(r, r.mapping[m].next, fuel - 1)

Linked(r) == ListFrom(r, r.base_mapping.next, Cardinality(Maps) + 1)
IsLinkedIn(r, m) == \E i \in 1 .. Len(Linked(r)) : Linked(r)[i] = m

\* one mapping of the list walk of mem_mapping_recalc
RecalcMap(r, m, base, size) ==
    LET map == r.mapping[m]
        start0 == IF map.base < base THEN map.base ELSE base
        end == IF map.base + map.size < base + size
               THEN map.base + map.size ELSE base + size
        start == IF start0 < map.base THEN map.base ELSE start0
        In(c) == c >= start /\ c < end
    IN  IF map.enable /\ map.base < base + size /\ map.base + map.size > base
        THEN [r EXCEPT
               !.read_mapping = [c \in RegChunks |->
                   IF In(c) /\ map.rd
                      /\ mem_mapping_read_allowed(map.flags, r.mem_state[c], FALSE)
                   THEN m ELSE @[c]],
               !.mem_exec = [c \in RegChunks |->
                   IF In(c) /\ map.exec # NOEXEC
                      /\ mem_mapping_read_allowed(map.flags, r.mem_state[c], TRUE)
                   THEN [buf |-> map.exec.buf, off |-> map.exec.off + (c - map.base)]
                   ELSE @[c]],
               !.write_mapping = [c \in RegChunks |->
                   IF In(c) /\ map.wr
                      /\ mem_mapping_write_allowed(map.flags, r.mem_state[c])
                   THEN m ELSE @[c]]]
        ELSE r

RECURSIVE RecalcWalk(_, _, _, _, _)
RecalcWalk(r, lst, i, base, size) ==
    IF i > Len(lst) THEN r
    ELSE RecalcWalk(RecalcMap(r, lst[i], base, size), lst, i + 1, base, size)

mem_mapping_recalc(r, base, size) ==
    IF size = 0 THEN r
    ELSE LET InRange(c) == c >= base /\ c < base + size
             cleared == [r EXCEPT
                 !.read_mapping = [c \in RegChunks |-> IF InRange(c) THEN NOMAP ELSE @[c]],
                 !.write_mapping = [c \in RegChunks |-> IF InRange(c) THEN NOMAP ELSE @[c]],
                 !.mem_exec = [c \in RegChunks |-> IF InRange(c) THEN NOEXEC ELSE @[c]]]
             walked == RecalcWalk(cleared, Linked(r), 1, base, size)
         IN  [walked EXCEPT !.tlb = flushmmucache_cr3(@)]

\* the enable flag cleared and nothing recalculated
mem_mapping_disable_only(r, m) == [r EXCEPT !.mapping[m].enable = FALSE]

mem_mapping_disable(r, m) ==
    LET r1 == [r EXCEPT !.mapping[m].enable = FALSE]
    IN  mem_mapping_recalc(r1, r1.mapping[m].base, r1.mapping[m].size)

mem_mapping_enable(r, m) ==
    LET r1 == [r EXCEPT !.mapping[m].enable = TRUE]
    IN  mem_mapping_recalc(r1, r1.mapping[m].base, r1.mapping[m].size)

mem_mapping_del(r, m) ==
    LET r1 == mem_mapping_disable(r, m)
        lst == Linked(r1)
        Before == { i \in 1 .. Len(lst) : r1.mapping[lst[i]].next = m }
    IN  IF r1.base_mapping.next = m
        THEN [r1 EXCEPT !.base_mapping.next = r1.mapping[m].next]
        ELSE IF Before # {}
        THEN LET i == CHOOSE j \in Before : \A k \in Before : j <= k
             IN  [r1 EXCEPT !.mapping[lst[i]].next = r1.mapping[m].next]
        ELSE r1

mem_mapping_add(r, m, base, size, rd, wr, exec, fl) ==
    LET lst == Linked(r)
        r1 == IF lst = << >>
              THEN [r EXCEPT !.base_mapping.next = m]
              ELSE [r EXCEPT !.mapping[lst[Len(lst)]].next = m]
        r2 == [r1 EXCEPT !.mapping[m] =
                 [next |-> NOMAP, enable |-> (size # 0), base |-> base,
                  size |-> size, rd |-> rd, wr |-> wr, exec |-> exec,
                  flags |-> fl]]
    IN  mem_mapping_recalc(r2, base, size)

mem_mapping_set_handler(r, m, rd, wr) ==
    LET r1 == [r EXCEPT !.mapping[m].rd = rd, !.mapping[m].wr = wr]
    IN  mem_mapping_recalc(r1, r1.mapping[m].base, r1.mapping[m].size)

mem_mapping_set_addr(r, m, base, size) ==
    LET r1 == [r EXCEPT !.mapping[m].enable = FALSE]
        r2 == mem_mapping_recalc(r1, r1.mapping[m].base, r1.mapping[m].size)
        r3 == [r2 EXCEPT !.mapping[m].enable = TRUE, !.mapping[m].base = base,
                         !.mapping[m].size = size]
    IN  mem_mapping_recalc(r3, base, size)

mem_mapping_set_exec(r, m, exec) ==
    LET r1 == [r EXCEPT !.mapping[m].exec = exec]
    IN  mem_mapping_recalc(r1, r1.mapping[m].base, r1.mapping[m].size)

mem_set_mem_state_common(r, smm, base, size, state) ==
    LET InRange(c) == c >= base /\ c < base + size
        r1 == [r EXCEPT !.mem_state = [c \in RegChunks |->
                  IF ~InRange(c) THEN @[c]
                  ELSE IF smm THEN [@[c] EXCEPT !.sr = state.r, !.sw = state.w]
                  ELSE [@[c] EXCEPT !.r = state.r, !.w = state.w]]]
    IN  mem_mapping_recalc(r1, base, size)

mem_set_mem_state(r, base, size, state) ==
    mem_set_mem_state_common(r, FALSE, base, size, state)

\* rammask values, as sets of bit numbers
Mask20 == 0 .. 19
MaskFull == IF cpu_16bitbus THEN 0 .. 23 ELSE 0 .. 31

mem_a20_init(r) ==
    IF AT
    THEN [r EXCEPT !.rammask = MaskFull \ {20},
                   !.tlb = flushmmucache(@),
                   !.mem_a20_state = BitOr(r.mem_a20_key, r.mem_a20_alt)]
    ELSE [r EXCEPT !.rammask = Mask20,
                   !.tlb = flushmmucache(@),
                   !.mem_a20_key = 0, !.mem_a20_alt = 0, !.mem_a20_state = 0]

\* mem_a20_recalc without its calls of flushmmucache
mem_a20_recalc_noflush(r) ==
    IF ~AT
    THEN [r EXCEPT !.rammask = Mask20,
                   !.mem_a20_key = 0, !.mem_a20_alt = 0, !.mem_a20_state = 0]
    ELSE LET state == BitOr(r.mem_a20_key, r.mem_a20_alt)
         IN  [r EXCEPT !.rammask = IF state # 0 /\ r.mem_a20_state = 0 THEN MaskFull
                                   ELSE IF state = 0 /\ r.mem_a20_state # 0
                                   THEN MaskFull \ {20} ELSE @,
                       !.mem_a20_state = state]

mem_a20_recalc(r) ==
    IF ~AT
    THEN [r EXCEPT !.rammask = Mask20,
                   !.tlb = flushmmucache(@),
                   !.mem_a20_key = 0, !.mem_a20_alt = 0, !.mem_a20_state = 0]
    ELSE LET state == BitOr(r.mem_a20_key, r.mem_a20_alt)
             r1 == IF state # 0 /\ r.mem_a20_state = 0
                   THEN [r EXCEPT !.rammask = MaskFull, !.tlb = flushmmucache(@)]
                   ELSE IF state = 0 /\ r.mem_a20_state # 0
                   THEN [r EXCEPT !.rammask = MaskFull \ {20},
                                  !.tlb = flushmmucache(@)]
                   ELSE r
         IN  [r1 EXCEPT !.mem_a20_state = state]

INTERNAL_RW == [r |-> "INTERNAL", w |-> "INTERNAL"]
EXTERNAL_RW == [r |-> "EXTERNAL", w |-> "EXTERNAL"]
RamExec(off) == [buf |-> "ram", off |-> off]

\* mem_reset from the clearing of the lookup and page tables on; the high
\* and mid RAM mappings are registered only above 1024 and 768 KB
mem_reset(r) ==
    LET lowsize == IF mem_size > 640 THEN 160 ELSE KB(mem_size)
        r0 == [r EXCEPT
                 !.tlb.page_lookup = [v \in DOMAIN @ |-> NULLPAGE],
                 !.pblock = [p \in DOMAIN @ |-> FALSE],
                 !.mem_exec = [c \in RegChunks |-> NOEXEC],
                 !.base_mapping = [next |-> NOMAP],
                 !.mem_state = [c \in RegChunks |->
                     [r |-> "ANY", w |-> "ANY", sr |-> "NORMAL", sw |-> "NORMAL"]]]
        r1 == mem_set_mem_state(r0, 0, lowsize, INTERNAL_RW)
        r2 == mem_set_mem_state(r1, 160, 96, EXTERNAL_RW)
        r3 == mem_mapping_add(r2, "ram_low", 0, lowsize, TRUE, TRUE,
                              RamExec(0), {"INTERNAL"})
        highsize == IF cpu_16bitbus /\ mem_size > 16256
                    THEN KB(16256 - 1024) ELSE KB(mem_size - 1024)
        r4 == IF mem_size > 1024
              THEN mem_mapping_add(
                       mem_set_mem_state(r3, 256, highsize, INTERNAL_RW),
                       "ram_high", 256, highsize, TRUE, TRUE,
                       RamExec(256), {"INTERNAL"})
              ELSE r3
        r5 == IF mem_size > 768
              THEN mem_mapping_add(r4, "ram_mid", 160, 96, TRUE, TRUE,
                                   RamExec(160), {"INTERNAL"})
              ELSE r4
        r6 == mem_mapping_add(r5, "ram_remapped", KB(mem_size), KB(256),
                              TRUE, TRUE, RamExec(160), {"INTERNAL"})
        r7 == mem_mapping_disable(r6, "ram_remapped")
    IN  mem_a20_init(r7)

-----------------------------------------------------------------------------
(* RAM, the physical page table and the eviction list                      *)
(*                                                                          *)
(* ram holds the bytes of the cells a run follows, keyed by their offset   *)
(* in the RAM buffer.  A value of width w is the sequence of its w bytes,  *)
(* lowest first.  dirty_mask and code_present_mask of a page are sets of   *)
(* bit numbers: bit b of mask i is 64 * i + b (the layout with one mask    *)
(* has i = 0).  The byte masks are the global arrays the pages point into: *)
(* bit b of entry o of page p is 4096 * p + 64 * o + b.                     *)

\* evict_prev of a page that is not in the eviction list (0xffffffff)
EVICT_NOT_IN_LIST == -1

\* a page_t after the memset and the loop of mem_reset
PageZero == [dirty_mask |-> {}, code_present_mask |-> {},
             evict_prev |-> EVICT_NOT_IN_LIST, evict_next |-> 0]

\* what an access works on, as one record, and its assignment
Mem ==
    [tlb |-> TLB, ram |-> ram, pages |-> pages,
     byte_dirty_mask |-> byte_dirty_mask,
     purgable_page_list_head |-> purgable_page_list_head,
     purgeable_page_count |-> purgeable_page_count,
     mem_logical_addr |-> mem_logical_addr,
     abrt |-> abrt, cr2 |-> cr2, abrt_error |-> abrt_error,
     seg |-> 0, dev_reads |-> {}, dev_writes |-> << >>]

SetMem(m) ==
    /\ SetTLB(m.tlb)
    /\ ram' = m.ram
    /\ pages' = m.pages
    /\ byte_dirty_mask' = m.byte_dirty_mask
    /\ purgable_page_list_head' = m.purgable_page_list_head
    /\ purgeable_page_count' = m.purgeable_page_count
    /\ mem_logical_addr' = m.mem_logical_addr

\* the physical page table and the CPU state after mem_reset, with no RAM
\* cell followed
PhysIdle ==
    /\ new_dynarec = TRUE
    /\ ram = << >>
    /\ pages = [p \in PhysPagesTlb |-> PageZero]
    /\ byte_dirty_mask = {}
    /\ byte_code_present_mask = {}
    /\ purgable_page_list_head = 0
    /\ purgeable_page_count = 0
    /\ codegen_in_recompile = FALSE
    /\ cr0 = {}
    /\ cr3 = 0
    /\ cr4 = {}
    /\ CPL = 0
    /\ cpl_override = FALSE
    /\ abrt = FALSE
    /\ cr2 = 0
    /\ abrt_error = 0
    /\ mem_logical_addr = 0
    /\ touched = {}

\* F(x), with x computed once
Bind(x, F(_)) == CHOOSE r \in { F(v) : v \in {x} } : TRUE

\* ram[a], *(uintN_t *)&ram[a] and the store of val at ram[a]
RamByte(r, a) == IF a \in DOMAIN r THEN r[a] ELSE 0
RamRead(r, a, w) == [i \in 1..w |-> RamByte(r, a + i - 1)]
RamStore(r, a, val) ==
    [x \in DOMAIN r |-> IF a <= x /\ x < a + Len(val) THEN val[x - a + 1] ELSE r[x]]

\* the all-ones value of width w
AllOnes(w) == [i \in 1..w |-> 255]

\* (addr >> PAGE_MASK_INDEX_SHIFT) & PAGE_MASK_INDEX_MASK, in the layout that
\* has four masks, and (addr >> PAGE_MASK_SHIFT) & PAGE_MASK_MASK
MaskIndex(addr) == IF new_dynarec THEN 0 ELSE (addr \div 1024) % 4
MaskBitNo(addr) == (addr \div (IF new_dynarec THEN 64 ELSE 16)) % 64

\* mask, after mask |= (mask << 1) when carry holds: bit 64 does not exist
DirtyMask(addr, carry) ==
    { 64 * MaskIndex(addr) + MaskBitNo(addr) } \cup
    (IF carry /\ MaskBitNo(addr) < 63
     THEN { 64 * MaskIndex(addr) + MaskBitNo(addr) + 1 } ELSE {})

\* bit (addr & PAGE_BYTE_MASK_MASK) of p->byte_dirty_mask[byte_offset]
ByteBit(p, addr) == 4096 * p + (addr % 4096)

\* the sub-block of the byte at RAM offset a, as a bit of its page's masks
SubBlockOf(a) == 64 * MaskIndex(a) + MaskBitNo(a)

page_in_evict_list(m, p) == m.pages[p].evict_prev # EVICT_NOT_IN_LIST

page_add_to_evict_list(m, p) ==
    LET h  == m.purgable_page_list_head
        p1 == [m.pages EXCEPT ![h].evict_prev = p]
        p2 == [p1 EXCEPT ![p].evict_next = h, ![p].evict_prev = 0]
    IN  [m EXCEPT !.pages = p2,
                  !.purgable_page_list_head = p2[h].evict_prev,
                  !.purgeable_page_count = @ + 1]

\* fatal() ends the process when the page is not in the list
page_remove_from_evict_list(m, p) ==
    IF ~page_in_evict_list(m, p) THEN m
    ELSE
      LET e  == m.pages[p]
          p1 == IF e.evict_prev # 0
                THEN [m.pages EXCEPT ![e.evict_prev].evict_next = e.evict_next]
                ELSE m.pages
          p2 == IF e.evict_next # 0
                THEN [p1 EXCEPT ![e.evict_next].evict_prev = e.evict_prev]
                ELSE p1
      IN  [m EXCEPT !.pages = [p2 EXCEPT ![p].evict_prev = EVICT_NOT_IN_LIST],
                    !.purgable_page_list_head =
                        IF e.evict_prev # 0 THEN @ ELSE e.evict_next,
                    !.purgeable_page_count = @ - 1]

\* if (c && !page_in_evict_list(p)) page_add_to_evict_list(p);
EvictIf(m, p, c) ==
    Bind(m, LAMBDA x : IF c /\ ~page_in_evict_list(x, p)
                       THEN page_add_to_evict_list(x, p) ELSE x)

\* the loop of mem_invalidate_range from address a on: the sub-block of a is
\* marked dirty and, in the build with the eviction list, a page with code
\* in it is put on the list; pages beyond the table are skipped
RECURSIVE InvalidateFrom(_, _, _)
InvalidateFrom(m, a, end) ==
    IF a > end THEN m
    ELSE InvalidateFrom(
             IF PageOf(a) \notin DOMAIN m.pages THEN m
             ELSE EvictIf([m EXCEPT !.pages[PageOf(a)].dirty_mask =
                                        @ \cup {SubBlockOf(a)}],
                          PageOf(a),
                          new_dynarec /\ SubBlockOf(a) \in
                                            m.pages[PageOf(a)].code_present_mask),
             a + (IF new_dynarec THEN 64 ELSE 16), end)

\* start_addr &= ~PAGE_MASK_MASK; end_addr = (end_addr + PAGE_MASK_MASK) &
\* ~PAGE_MASK_MASK, for addresses far below 2^32
mem_invalidate_range(m, start_addr, end_addr) ==
    InvalidateFrom(m, start_addr - (start_addr % 64),
                   ((end_addr + 63) \div 64) * 64)

\* p->dirty_mask |= mask and the store into p->mem
MarkAndStore(m, p, addr, val, mask) ==
    [m EXCEPT !.ram = RamStore(@, 4096 * p + (addr % 4096), val),
              !.pages[p].dirty_mask = @ \cup mask]

HandlerActsAlways(m, p, addr, val) == TRUE

\* the test that lets a handler act
HandlerActs(m, p, addr, val) ==
    val # RamRead(m.ram, 4096 * p + (addr % 4096), Len(val)) \/ codegen_in_recompile

mem_write_ramb_page(m, addr, val, p) ==
    IF ~HandlerActs(m, p, addr, val) THEN m
    ELSE
      LET mask == DirtyMask(addr, FALSE)
          byte_mask == { ByteBit(p, addr) }
          m1 == MarkAndStore(m, p, addr, val, mask)
      IN  IF ~new_dynarec THEN m1
          ELSE
            LET m2 == EvictIf(m1, p, m1.pages[p].code_present_mask \cap mask # {})
                m3 == [m2 EXCEPT !.byte_dirty_mask = @ \cup byte_mask]
            IN  EvictIf(m3, p, byte_code_present_mask \cap byte_mask # {})

mem_write_ramw_page(m, addr, val, p) ==
    IF ~HandlerActs(m, p, addr, val) THEN m
    ELSE
      LET mask == DirtyMask(addr, addr % 16 = 15)
          m1 == MarkAndStore(m, p, addr, val, mask)
      IN  IF ~new_dynarec THEN m1
          ELSE
            LET last_bit == addr % 64 = 63
                next == { ByteBit(p, addr) + 1 }
                byte_mask == IF last_bit THEN { ByteBit(p, addr) }
                             ELSE { ByteBit(p, addr), ByteBit(p, addr) + 1 }
                m2 == EvictIf(m1, p, m1.pages[p].code_present_mask \cap mask # {})
                m3 == IF last_bit
                      THEN EvictIf([m2 EXCEPT !.byte_dirty_mask = @ \cup next], p,
                                   byte_code_present_mask \cap next # {})
                      ELSE m2
                m4 == [m3 EXCEPT !.byte_dirty_mask = @ \cup byte_mask]
            IN  EvictIf(m4, p, byte_code_present_mask \cap byte_mask # {})

mem_write_raml_page(m, addr, val, p) ==
    IF ~HandlerActs(m, p, addr, val) THEN m
    ELSE
      LET mask == DirtyMask(addr, addr % 16 >= 13)
          m1 == MarkAndStore(m, p, addr, val, mask)
      IN  IF ~new_dynarec THEN m1
          ELSE
            LET room == IF addr % 64 > 60 THEN 63 - (addr % 64) ELSE 3
                byte_mask == { ByteBit(p, addr) + i : i \in 0 .. room }
                byte_mask_2 == { ByteBit(p, addr) - (addr % 64) + 64 + j :
                                   j \in 0 .. ((addr % 4) - 1) }
                m2 == [m1 EXCEPT !.byte_dirty_mask = @ \cup byte_mask]
                m3 == EvictIf(m2, p, m1.pages[p].code_present_mask \cap mask # {}
                                     \/ byte_code_present_mask \cap byte_mask # {})
            IN  IF addr % 64 > 60
                THEN EvictIf([m3 EXCEPT !.byte_dirty_mask = @ \cup byte_mask_2], p,
                             byte_code_present_mask \cap byte_mask_2 # {})
                ELSE m3

\* p->write_b, p->write_w, p->write_l by the width of val
PageWrite(m, addr, val, p) ==
    CASE Len(val) = 1 -> mem_write_ramb_page(m, addr, val, p)
      [] Len(val) = 2 -> mem_write_ramw_page(m, addr, val, p)
      [] OTHER        -> mem_write_raml_page(m, addr, val, p)

\* mem_write_ram, mem_write_ramw, mem_write_raml
mem_write_ram(m, addr, val) ==
    Bind([m EXCEPT !.tlb = addwritelookup(@, pblock, recomp_page,
                                          m.mem_logical_addr, addr)],
         LAMBDA m1 : PageWrite(m1, addr, val, PageOf(addr)))

\* mem_read_ram, mem_read_ramw, mem_read_raml
mem_read_ram(m, addr, w) ==
    [m |-> [m EXCEPT !.tlb = addreadlookup(@, m.mem_logical_addr, addr)],
     val |-> RamRead(m.ram, addr, w)]

-----------------------------------------------------------------------------
(* The page-table walker and the logical access entry points               *)

\* the value the walker returns for a fault (all ones)
FAULT == -1

\* x & mask for a mask that is a set of bit numbers; b is the bit of x % 2
RECURSIVE AndMask(_, _, _)
AndMask(x, mask, b) ==
    IF x = 0 THEN 0
    ELSE (IF x % 2 = 1 /\ b \in mask THEN Pow2(b) ELSE 0)
         + AndMask(x \div 2, mask, b + 1)

\* x >> MEM_GRANULARITY_BITS as an index of the chunk tables, which count
\* in units of 4 KiB: a chunk is 16 KiB
ChunkOf(x) == 4 * (x \div 16384)

\* rammap(x): the 32-bit word at x of the buffer behind _mem_exec, as a RAM
\* offset and as a number
RamMapAt(x) == 4096 * mem_exec[ChunkOf(x)].off + (x % 16384) - (x % 4)
rammap(r, x) ==
    LET b == RamRead(r, RamMapAt(x), 4)
    IN  b[1] + 256 * b[2] + 65536 * b[3] + 16777216 * b[4]

\* rammap(x) |= bits, for bits within the low byte
RamMapOr(r, x, bits) ==
    RamStore(r, RamMapAt(x), << BitOr(RamByte(r, RamMapAt(x)), bits) >>)

\* (x & bit) != 0 for a single bit
HasBit(x, bit) == (x \div bit) % 2 = 1

\* the refusal test of the walker on the entry bits temp
Refused(temp, rw) ==
    \/ (CPL = 3 /\ ~HasBit(temp, 4) /\ ~cpl_override)
    \/ (rw /\ ~HasBit(temp, 2) /\ ((CPL = 3 /\ ~cpl_override) \/ "WP" \in cr0))

\* the refusal test of the walkers that raise no fault
RefusedNoabrt(temp, rw) ==
    \/ (CPL = 3 /\ ~HasBit(temp, 4) /\ ~cpl_override)
    \/ (rw /\ ~HasBit(temp, 2) /\ (CPL = 3 \/ "WP" \in cr0))

FaultCauseNotPresent(temp, rw) ==
    (IF CPL = 3 THEN 4 ELSE 0) + (IF rw THEN 2 ELSE 0)

\* temp &= 1; if (CPL == 3) temp |= 4; if (rw) temp |= 2;
FaultCause(temp, rw) ==
    (temp % 2) + (IF CPL = 3 THEN 4 ELSE 0) + (IF rw THEN 2 ELSE 0)

PageFaultMarks(m, addr, temp, rw) ==
    [m |-> [m EXCEPT !.cr2 = addr, !.abrt = TRUE,
                     !.abrt_error = FaultCause(temp, rw),
                     !.ram = RamMapOr(@, cr3 - (cr3 % 32), 32)],
     phys |-> FAULT]

\* the fault a walker raises on the entry temp: cr2, cpu_state.abrt and
\* abrt_error are set and all ones returned
PageFault(m, addr, temp, rw) ==
    [m |-> [m EXCEPT !.cr2 = addr, !.abrt = TRUE,
                     !.abrt_error = FaultCause(temp, rw)],
     phys |-> FAULT]

EffectivePermLast(temp, upper) == temp

\* temp3 = temp & temp2 (2-level walk), temp3 = temp & temp4 (PAE walk)
EffectivePerm(temp, upper) == BitAnd(temp, upper)

LargePhysSmall(temp, addr, size) == PageBase(temp) + (addr % 4096)

\* (temp & ~(size - 1)) + (addr & (size - 1)) for a large page of size bytes
LargePhys(temp, addr, size) == temp - (temp % size) + (addr % size)

mmutranslatereal_normal(m, addr, rw) ==
    IF m.abrt THEN [m |-> m, phys |-> FAULT]
    ELSE
      LET addr2 == PageBase(cr3) + BitAnd(addr \div 1048576, 4092)
          temp2 == rammap(m.ram, addr2)
          addr3 == PageBase(temp2) + BitAnd(addr \div 1024, 4092)
          temp  == rammap(m.ram, addr3)
      IN  IF ~HasBit(temp2, 1) THEN PageFault(m, addr, temp2, rw)
          ELSE IF HasBit(temp2, 128) /\ "PSE" \in cr4
          THEN IF Refused(temp2, rw) THEN PageFault(m, addr, temp2, rw)
               ELSE [m |-> [m EXCEPT !.ram = RamMapOr(@, addr2, 32)],
                     phys |-> LargePhys(temp2, addr, 4194304)]
          ELSE IF ~HasBit(temp, 1) \/ Refused(EffectivePerm(temp, temp2), rw)
          THEN PageFault(m, addr, temp, rw)
          ELSE [m |-> [m EXCEPT !.ram = RamMapOr(RamMapOr(@, addr2, 32), addr3,
                                                 IF rw THEN 96 ELSE 32)],
                phys |-> PageBase(temp) + (addr % 4096)]

\* rammap64(x) & 0x000000ffffffffff: the 64-bit word at x of the buffer
\* behind _mem_exec; the entries of the model hold zero in bytes 4 to 7, so
\* the number is that of the low four bytes
RamMapAt64(x) == 4096 * mem_exec[ChunkOf(x)].off + (x % 16384) - (x % 8)
rammap64(r, x) ==
    LET b == RamRead(r, RamMapAt64(x), 4)
    IN  b[1] + 256 * b[2] + 65536 * b[3] + 16777216 * b[4]

\* rammap64(x) |= bits, for bits within the low byte
RamMapOr64(r, x, bits) ==
    RamStore(r, RamMapAt64(x), << BitOr(RamByte(r, RamMapAt64(x)), bits) >>)

mmutranslatereal_pae(m, addr, rw) ==
    IF m.abrt THEN [m |-> m, phys |-> FAULT]
    ELSE
      LET addr2 == cr3 - (cr3 % 32) + BitAnd(addr \div 134217728, 24)
          temp2 == rammap64(m.ram, addr2)
          addr3 == PageBase(temp2) + BitAnd(addr \div 262144, 4088)
          temp4 == rammap64(m.ram, addr3)
          addr4 == PageBase(temp4) + BitAnd(addr \div 512, 4088)
          temp  == rammap64(m.ram, addr4)
      IN  IF ~HasBit(temp2, 1) THEN PageFault(m, addr, temp2, rw)
          ELSE IF ~HasBit(temp4, 1) THEN PageFault(m, addr, temp4, rw)
          ELSE IF HasBit(temp4, 128)
          THEN IF Refused(temp4, rw) THEN PageFault(m, addr, temp4, rw)
               ELSE [m |-> [m EXCEPT !.ram = RamMapOr64(@, addr3, 32)],
                     phys |-> LargePhys(temp4, addr, 2097152)]
          ELSE IF ~HasBit(temp, 1) \/ Refused(EffectivePerm(temp, temp4), rw)
          THEN PageFault(m, addr, temp, rw)
          ELSE [m |-> [m EXCEPT !.ram = RamMapOr64(RamMapOr64(@, addr3, 32), addr4,
                                                   IF rw THEN 96 ELSE 32)],
                phys |-> PageBase(temp) + (addr % 4096)]

\* mmutranslatereal: the PAE walk when CR4.PAE is set
mmutranslatereal(m, addr, rw) ==
    IF "PAE" \in cr4 THEN mmutranslatereal_pae(m, addr, rw)
    ELSE mmutranslatereal_normal(m, addr, rw)

\* the walkers that raise no fault: the physical address or all ones
mmutranslate_noabrt_normal(m, addr, rw) ==
    IF m.abrt THEN FAULT
    ELSE
      LET addr2 == PageBase(cr3) + BitAnd(addr \div 1048576, 4092)
          temp2 == rammap(m.ram, addr2)
          addr3 == PageBase(temp2) + BitAnd(addr \div 1024, 4092)
          temp  == rammap(m.ram, addr3)
      IN  IF ~HasBit(temp2, 1) THEN FAULT
          ELSE IF HasBit(temp2, 128) /\ "PSE" \in cr4
          THEN IF RefusedNoabrt(temp2, rw) THEN FAULT
               ELSE LargePhys(temp2, addr, 4194304)
          ELSE IF ~HasBit(temp, 1) \/ RefusedNoabrt(EffectivePerm(temp, temp2), rw)
          THEN FAULT
          ELSE PageBase(temp) + (addr % 4096)

mmutranslate_noabrt_pae(m, addr, rw) ==
    IF m.abrt THEN FAULT
    ELSE
      LET addr2 == cr3 - (cr3 % 32) + BitAnd(addr \div 134217728, 24)
          temp2 == rammap64(m.ram, addr2)
          addr3 == PageBase(temp2) + BitAnd(addr \div 262144, 4088)
          temp4 == rammap64(m.ram, addr3)
          addr4 == PageBase(temp4) + BitAnd(addr \div 512, 4088)
          temp  == rammap64(m.ram, addr4)
      IN  IF ~HasBit(temp2, 1) THEN FAULT
          ELSE IF ~HasBit(temp4, 1) THEN FAULT
          ELSE IF HasBit(temp4, 128)
          THEN IF RefusedNoabrt(temp4, rw) THEN FAULT
               ELSE LargePhys(temp4, addr, 2097152)
          ELSE IF ~HasBit(temp, 1) \/ RefusedNoabrt(EffectivePerm(temp, temp4), rw)
          THEN FAULT
          ELSE PageBase(temp) + (addr % 4096)

mmutranslate_noabrt(m, addr, rw) ==
    IF "PAE" \in cr4 THEN mmutranslate_noabrt_pae(m, addr, rw)
    ELSE mmutranslate_noabrt_normal(m, addr, rw)

\* if (cr0 >> 31) addr64 = mmutranslate_read/write(addr)
Translate(m, addr, rw) ==
    IF "PG" \in cr0 THEN mmutranslatereal(m, addr, rw)
    ELSE [m |-> m, phys |-> addr]

\* the RAM mappings, whose accessors are mem_read_ram... and mem_write_ram...
RamMaps == {"ram_low", "ram_mid", "ram_high"}

\* the widths of the accessors a device mapping was registered with: the
\* first device has byte accessors only, the second byte and word accessors
DevWidths(map) == IF map = "devA" THEN {1} ELSE {1, 2}

\* map->read_b, map->read_w, map->read_l are non-NULL for the widths in
\* ReadWidths(map), and map->write_b, ... for those in WriteWidths(map)
ReadWidths(map) ==
    IF ~mapping[map].rd THEN {}
    ELSE IF map \in DevMaps THEN DevWidths(map) ELSE {1, 2, 4}
WriteWidths(map) ==
    IF ~mapping[map].wr THEN {}
    ELSE IF map \in DevMaps THEN DevWidths(map) ELSE {1, 2, 4}

\* what a device returns for the byte at a physical address
DevByte(a) == a % 251

\* map->read_b(a, map->p), read_w, read_l: a RAM accessor, or a device
\* accessor, of which the model keeps the addresses and widths of the calls
\* (the calls of one expression are made in an order the language leaves
\* open, so the calls of a read are kept as a set)
MapReadCall(m, map, a, w) ==
    IF map \in RamMaps THEN mem_read_ram(m, a, w)
    ELSE [m |-> [m EXCEPT !.dev_reads = @ \cup {[addr |-> a, w |-> w]}],
          val |-> [i \in 1..w |-> DevByte(a + i - 1)]]

\* map->write_b(a, val, map->p), write_w, write_l
MapWriteCall(m, map, a, val) ==
    IF map \in RamMaps THEN mem_write_ram(m, a, val)
    ELSE [m EXCEPT !.dev_writes = Append(@, [addr |-> a, val |-> val])]

\* accessor calls of width w at the addresses of as, the values joined with
\* the first call's lowest
RECURSIVE ReadPieces(_, _, _, _)
ReadPieces(m, map, as, w) ==
    IF as = << >> THEN [m |-> m, val |-> << >>]
    ELSE Bind(MapReadCall(m, map, Head(as), w), LAMBDA lo :
           Bind(ReadPieces(lo.m, map, Tail(as), w), LAMBDA hi :
             [m |-> hi.m, val |-> lo.val \o hi.val]))

\* accessor calls of width w at a, a + w, ... with val, val >> 8w, ...
RECURSIVE WritePieces(_, _, _, _, _)
WritePieces(m, map, a, val, w) ==
    IF val = << >> THEN m
    ELSE WritePieces(MapWriteCall(m, map, a, SubSeq(val, 1, w)), map, a + w,
                     SubSeq(val, w + 1, Len(val)), w)

\* the address of the high byte when readmemwl reads two bytes: addr2 + 1,
\* and seg + ((addr + 1) & 0xffff) in the build without the new recompiler
\* on a machine that is not AT
HighByteAddr(m, addr2) ==
    IF ~new_dynarec /\ ~AT
    THEN m.seg + ((m.mem_logical_addr - m.seg + 1) % 65536)
    ELSE addr2 + 1

\* the widest accessor the owner has: read_l, else read_w twice, else
\* read_b four times; read_w, else read_b twice; read_b; else all ones
MapRead(m, map, addr2, w) ==
    LET have == ReadWidths(map)
    IN  IF w \in have THEN MapReadCall(m, map, addr2, w)
        ELSE IF w = 4 /\ 2 \in have
        THEN ReadPieces(m, map, << addr2, addr2 + 2 >>, 2)
        ELSE IF w = 4 /\ 1 \in have
        THEN ReadPieces(m, map, [i \in 1..4 |-> addr2 + i - 1], 1)
        ELSE IF w = 2 /\ 1 \in have
        THEN ReadPieces(m, map, << addr2, HighByteAddr(m, addr2) >>, 1)
        ELSE [m |-> m, val |-> AllOnes(w)]

\* write_l, else write_w, else write_b, each as often as the value needs
MapWrite(m, map, addr2, val) ==
    LET have == WriteWidths(map)
        w == Len(val)
    IN  IF w \in have THEN MapWriteCall(m, map, addr2, val)
        ELSE IF w >= 8 /\ 4 \in have THEN WritePieces(m, map, addr2, val, 4)
        ELSE IF w >= 4 /\ 2 \in have THEN WritePieces(m, map, addr2, val, 2)
        ELSE IF w >= 2 /\ 1 \in have THEN WritePieces(m, map, addr2, val, 1)
        ELSE m

ReadDispatchZero(t, w) == [m |-> t.m, val |-> [i \in 1..w |-> 0]]

\* the end of every read entry point: translate, mask, dispatch on the
\* read owner of the chunk
ReadDispatch(t, w) ==
    LET addr2 == AndMask(t.phys, rammask, 0)
        map == read_mapping[ChunkOf(addr2)]
    IN  IF t.phys = FAULT THEN [m |-> t.m, val |-> AllOnes(w)]
        ELSE IF map # NOMAP THEN MapRead(t.m, map, addr2, w)
        ELSE [m |-> t.m, val |-> AllOnes(w)]

ReadTail(m, addr, w) ==
    Bind(Translate(m, addr, FALSE), LAMBDA t : ReadDispatch(t, w))

\* both walks of a page-crossing access succeed (or paging is off)
CrossWalks(m, addr, w, rw) ==
    Bind(Translate(m, addr, rw), LAMBDA t1 :
      IF t1.phys = FAULT THEN [m |-> t1.m, ok |-> FALSE]
      ELSE Bind(Translate(t1.m, addr + w - 1, rw), LAMBDA t2 :
             [m |-> t2.m, ok |-> t2.phys # FAULT]))

\* the two walks of the page-crossing branch of writememwl in the build
\* with the new recompiler, whose results are compared with 0xffffffff: all
\* ones in 64 bits never equal it, so a fault does not end the write there,
\* and the second walk finds the abort of the first pending; a physical
\* address equal to 0xffffffff lies outside the addresses of the model
CrossWalks32(m, addr, w, rw) ==
    Bind(Translate(m, addr, rw), LAMBDA t1 :
      Bind(Translate(t1.m, addr + w - 1, rw), LAMBDA t2 :
        [m |-> t2.m, ok |-> TRUE]))

readmembl(m, addr) ==
    ReadTail([m EXCEPT !.mem_logical_addr = addr], addr, 1)

\* the two halves of a page-crossing read, after both walks
ReadHalves(c, addr, h, Half(_, _)) ==
    IF ~c.ok THEN [m |-> c.m, val |-> AllOnes(2 * h)]
    ELSE Bind(Half(c.m, addr), LAMBDA lo :
           Bind(Half(lo.m, addr + h), LAMBDA hi :
             [m |-> hi.m, val |-> lo.val \o hi.val]))

readmemwl(m, addr) ==
    LET m0 == [m EXCEPT !.mem_logical_addr = addr]
    IN  IF Misaligned(addr, 2) /\ CrossesPage(addr, 2)
        THEN Bind(CrossWalks(m0, addr, 2, FALSE),
                  LAMBDA c : ReadHalves(c, addr, 1, readmembl))
        ELSE IF Misaligned(addr, 2) /\ m.tlb.readlookup2[PageOf(addr)] # EMPTY
        THEN [m |-> m0,
              val |-> RamRead(m.ram, m.tlb.readlookup2[PageOf(addr)] + addr, 2)]
        ELSE ReadTail(m0, addr, 2)

readmemll(m, addr) ==
    LET m0 == [m EXCEPT !.mem_logical_addr = addr]
    IN  IF Misaligned(addr, 4) /\ CrossesPage(addr, 4)
        THEN Bind(CrossWalks(m0, addr, 4, FALSE),
                  LAMBDA c : ReadHalves(c, addr, 2, readmemwl))
        ELSE IF Misaligned(addr, 4) /\ m.tlb.readlookup2[PageOf(addr)] # EMPTY
        THEN [m |-> m0,
              val |-> RamRead(m.ram, m.tlb.readlookup2[PageOf(addr)] + addr, 4)]
        ELSE ReadTail(m0, addr, 4)

WriteDispatchNone(t, val) == t.m

\* the end of every write entry point: the page entry of page_lookup when
\* there is one, otherwise translate, mask, dispatch on the write owner
WriteDispatch(t, val) ==
    LET addr2 == AndMask(t.phys, rammask, 0)
        map == write_mapping[ChunkOf(addr2)]
    IN  IF t.phys = FAULT THEN t.m
        ELSE IF map # NOMAP THEN MapWrite(t.m, map, addr2, val)
        ELSE t.m

WriteTail(m, addr, val) ==
    LET p == m.tlb.page_lookup[PageOf(addr)]
    IN  IF p # NULLPAGE THEN PageWrite(m, addr, val, p)
        ELSE Bind(Translate(m, addr, TRUE), LAMBDA t : WriteDispatch(t, val))

writemembl(m, addr, val) ==
    WriteTail([m EXCEPT !.mem_logical_addr = addr], addr, val)

\* the two halves of a page-crossing write, after both walks
WriteHalves(c, addr, val, Half(_, _, _)) ==
    LET h == Len(val) \div 2
    IN  IF ~c.ok THEN c.m
        ELSE Bind(Half(c.m, addr, SubSeq(val, 1, h)), LAMBDA lo :
               Half(lo, addr + h, SubSeq(val, h + 1, 2 * h)))

writememwl(m, addr, val) ==
    LET m0 == [m EXCEPT !.mem_logical_addr = addr]
    IN  IF Misaligned(addr, 2) /\ CrossesPage(addr, 2)
        THEN Bind(IF new_dynarec THEN CrossWalks32(m0, addr, 2, TRUE)
                  ELSE CrossWalks(m0, addr, 2, TRUE),
                  LAMBDA c : WriteHalves(c, addr, val, writemembl))
        ELSE IF Misaligned(addr, 2) /\ m.tlb.writelookup2[PageOf(addr)] # EMPTY
        THEN [m0 EXCEPT !.ram = RamStore(@, m.tlb.writelookup2[PageOf(addr)] + addr, val)]
        ELSE WriteTail(m0, addr, val)

writememll(m, addr, val) ==
    LET m0 == [m EXCEPT !.mem_logical_addr = addr]
    IN  IF Misaligned(addr, 4) /\ CrossesPage(addr, 4)
        THEN Bind(CrossWalks(m0, addr, 4, TRUE),
                  LAMBDA c : WriteHalves(c, addr, val, writememwl))
        ELSE IF Misaligned(addr, 4) /\ m.tlb.writelookup2[PageOf(addr)] # EMPTY
        THEN [m0 EXCEPT !.ram = RamStore(@, m.tlb.writelookup2[PageOf(addr)] + addr, val)]
        ELSE WriteTail(m0, addr, val)

ReadAgainLogical(addr, addr2) == addr

\* the address the tail of readmemql hands to readmemll when the owner has
\* no 32-bit read: addr, which the build with the new recompiler has by
\* then overwritten with the masked physical address addr2
ReadAgain(addr, addr2) == IF new_dynarec THEN addr2 ELSE addr

\* the end of readmemql: map->read_l twice, or readmemll twice
ReadDispatchQ(t, addr) ==
    LET addr2 == AndMask(t.phys, rammask, 0)
        map == read_mapping[ChunkOf(addr2)]
    IN  IF t.phys = FAULT THEN [m |-> t.m, val |-> AllOnes(8)]
        ELSE IF map # NOMAP /\ 4 \in ReadWidths(map)
        THEN ReadPieces(t.m, map, << addr2, addr2 + 4 >>, 4)
        ELSE ReadHalves([m |-> t.m, ok |-> TRUE], ReadAgain(addr, addr2), 4,
                        readmemll)

readmemql(m, addr) ==
    LET m0 == [m EXCEPT !.mem_logical_addr = addr]
    IN  IF Misaligned(addr, 8) /\ CrossesPage(addr, 8)
        THEN Bind(CrossWalks(m0, addr, 8, FALSE),
                  LAMBDA c : ReadHalves(c, addr, 4, readmemll))
        ELSE IF Misaligned(addr, 8) /\ m.tlb.readlookup2[PageOf(addr)] # EMPTY
        THEN [m |-> m0,
              val |-> RamRead(m.ram, m.tlb.readlookup2[PageOf(addr)] + addr, 8)]
        ELSE Bind(Translate(m0, addr, FALSE), LAMBDA t : ReadDispatchQ(t, addr))

\* the end of writememql: write_l of the page entry twice, or map->write_l
\* twice
WriteDispatchQ(t, val) ==
    LET addr2 == AndMask(t.phys, rammask, 0)
        map == write_mapping[ChunkOf(addr2)]
    IN  IF t.phys = FAULT THEN t.m
        ELSE IF map # NOMAP THEN MapWrite(t.m, map, addr2, val)
        ELSE t.m

writememql(m, addr, val) ==
    LET m0 == [m EXCEPT !.mem_logical_addr = addr]
        p == m.tlb.page_lookup[PageOf(addr)]
    IN  IF Misaligned(addr, 8) /\ CrossesPage(addr, 8)
        THEN Bind(CrossWalks(m0, addr, 8, TRUE),
                  LAMBDA c : WriteHalves(c, addr, val, writememll))
        ELSE IF Misaligned(addr, 8) /\ m.tlb.writelookup2[PageOf(addr)] # EMPTY
        THEN [m0 EXCEPT !.ram = RamStore(@, m.tlb.writelookup2[PageOf(addr)] + addr, val)]
        ELSE IF p # NULLPAGE
        THEN WriteHalves([m |-> m0, ok |-> TRUE], addr, val,
                         LAMBDA x, a, v : PageWrite(x, a, v, p))
        ELSE Bind(Translate(m0, addr, TRUE), LAMBDA t : WriteDispatchQ(t, val))

\* the read and the write entry point of a width
ReadMem(m, addr, w) ==
    CASE w = 1 -> readmembl(m, addr)
      [] w = 2 -> readmemwl(m, addr)
      [] w = 4 -> readmemll(m, addr)
      [] OTHER -> readmemql(m, addr)

WriteMem(m, addr, val) ==
    CASE Len(val) = 1 -> writemembl(m, addr, val)
      [] Len(val) = 2 -> writememwl(m, addr, val)
      [] Len(val) = 4 -> writememll(m, addr, val)
      [] OTHER        -> writememql(m, addr, val)

-----------------------------------------------------------------------------
(* The physical accessors                                                   *)
(*                                                                          *)
(* inb is the outcome of addr <= MEM_GRANULARITY_HBOUND (QBOUND for a       *)
(* doubleword), two bounds mem.h defines: it decides whether an access of   *)
(* more than one byte is tried in one piece.                                *)

\* the accessor entered with the logical address of the last guest access
PhysLogicalKept(m) == m

\* mem_logical_addr = 0xffffffff
PhysLogical(m) == [m EXCEPT !.mem_logical_addr = NO_LOGICAL]

\* _mem_exec[addr >> MEM_GRANULARITY_BITS][addr & MEM_GRANULARITY_MASK] as an
\* offset in the RAM buffer
ExecAt(addr) == 4096 * mem_exec[ChunkOf(addr)].off + (addr % 16384)

\* mem_readb_phys, mem_readw_phys, mem_readl_phys by the width w
RECURSIVE mem_read_phys(_, _, _, _)
mem_read_phys(m, addr, w, inb) ==
    LET m1 == PhysLogical(m)
        exec == mem_exec[ChunkOf(addr)]
        map == read_mapping[ChunkOf(addr)]
    IN  IF (w = 1 \/ inb) /\ exec # NOEXEC
        THEN [m |-> m1, val |-> IF exec.buf = "ram" THEN RamRead(m1.ram, ExecAt(addr), w)
                                ELSE [i \in 1..w |-> 0]]
        ELSE IF (w = 1 \/ inb) /\ map # NOMAP /\ mapping[map].rd
        THEN IF map \in RamMaps THEN mem_read_ram(m1, addr, w)
             ELSE [m |-> m1, val |-> [i \in 1..w |-> 0]]
        ELSE IF w = 1 THEN [m |-> m1, val |-> AllOnes(1)]
        ELSE Bind(mem_read_phys(m1, addr + (w \div 2), w \div 2, inb), LAMBDA hi :
               Bind(mem_read_phys(hi.m, addr, w \div 2, inb), LAMBDA lo :
                 [m |-> lo.m, val |-> lo.val \o hi.val]))

\* mem_writeb_phys, mem_writew_phys, mem_writel_phys by the width of val
RECURSIVE mem_write_phys(_, _, _, _)
mem_write_phys(m, addr, val, inb) ==
    LET w == Len(val)
        m1 == PhysLogical(m)
        exec == mem_exec[ChunkOf(addr)]
        map == write_mapping[ChunkOf(addr)]
    IN  IF (w = 1 \/ inb) /\ exec # NOEXEC
        THEN IF exec.buf = "ram" THEN [m1 EXCEPT !.ram = RamStore(@, ExecAt(addr), val)]
             ELSE m1
        ELSE IF (w = 1 \/ inb) /\ map # NOMAP /\ mapping[map].wr
        THEN IF map \in RamMaps THEN mem_write_ram(m1, addr, val) ELSE m1
        ELSE IF w = 1 THEN m1
        ELSE Bind(mem_write_phys(m1, addr, SubSeq(val, 1, w \div 2), inb), LAMBDA lo :
               mem_write_phys(lo, addr + (w \div 2), SubSeq(val, (w \div 2) + 1, w), inb))

-----------------------------------------------------------------------------
(* The translation caches on their own: insertions with arbitrary          *)
(* translations, the flushes, and the recompiler registering code blocks.  *)
(* addreadlookup touches only the read cache and addwritelookup only the   *)
(* write cache, so a run exercises one of the two (focus); the flushes act *)
(* on both.                                                                *)

\* the pages of the insertions made since the caches were last emptied, as
\* long as no page was inserted twice; Overflow otherwise
Overflow == << EMPTY >>
Record(calls, v) ==
    IF calls = Overflow \/ Len(calls) > cachesize
       \/ (\E i \in 1..Len(calls) : calls[i] = v)
    THEN Overflow
    ELSE Append(calls, v)

\* virt arguments: the page-aligned logical addresses and 0xffffffff
TlbVirts == { v * 4096 : v \in TlbPages } \cup { NO_LOGICAL }
TlbPhys == { p * 4096 : p \in PhysPagesTlb }

TlbInit ==
    /\ PhysIdle
    /\ InitMachine(MachineZero(TlbEmpty))
    /\ recomp_page = EMPTY
    /\ in_smm = FALSE
    /\ AT = TRUE
    /\ dma = DmaReset
    /\ cpu_16bitbus = FALSE
    /\ focus \in {"read", "write"}
    /\ last = [op |-> "init", virt |-> 0, phys |-> 0]
    /\ rcalls = << >>
    /\ wcalls = << >>
    /\ nops = 0

TlbAddRead ==
    /\ focus = "read"
    /\ \E virt \in TlbVirts, phys \in TlbPhys :
        /\ SetTLB(addreadlookup(TLB, virt, phys))
        /\ last' = [op |-> "addreadlookup", virt |-> virt, phys |-> phys]
        /\ rcalls' = IF virt = NO_LOGICAL THEN rcalls ELSE Record(rcalls, PageOf(virt))
        /\ UNCHANGED <<cgvars, focus, wcalls, regvars, a20vars, cfgvars, sndvars, physvars, nops>>

TlbAddWrite ==
    /\ focus = "write"
    /\ \E virt \in TlbVirts, phys \in TlbPhys :
        /\ SetTLB(addwritelookup(TLB, pblock, recomp_page, virt, phys))
        /\ last' = [op |-> "addwritelookup", virt |-> virt, phys |-> phys]
        /\ wcalls' = IF virt = NO_LOGICAL THEN wcalls ELSE Record(wcalls, PageOf(virt))
        /\ UNCHANGED <<cgvars, focus, rcalls, regvars, a20vars, cfgvars, sndvars, physvars, nops>>

TlbFlush ==
    /\ SetTLB(flushmmucache(TLB))
    /\ last' = [op |-> "flushmmucache", virt |-> 0, phys |-> 0]
    /\ rcalls' = << >>
    /\ wcalls' = << >>
    /\ UNCHANGED <<cgvars, focus, regvars, a20vars, cfgvars, sndvars, physvars, nops>>

TlbReset ==
    /\ SetTLB(resetreadlookup(TLB))
    /\ last' = [op |-> "resetreadlookup", virt |-> 0, phys |-> 0]
    /\ rcalls' = << >>
    /\ wcalls' = << >>
    /\ UNCHANGED <<cgvars, focus, regvars, a20vars, cfgvars, sndvars, physvars, nops>>

TlbFlushWritePage ==
    /\ focus = "write"
    /\ \E virt \in TlbVirts \ {NO_LOGICAL}, phys \in TlbPhys :
        /\ SetTLB(mem_flush_write_page(TLB, phys, virt))
        /\ last' = [op |-> "mem_flush_write_page", virt |-> virt, phys |-> phys]
        /\ wcalls' = Overflow
        /\ UNCHANGED <<cgvars, focus, rcalls, regvars, a20vars, cfgvars, sndvars, physvars, nops>>

\* the recompiler registers a code block for the page it executes from, at
\* the logical address it executes at, and flushes that write translation
CodegenBlockInit ==
    /\ focus = "write"
    /\ \E virt \in TlbVirts \ {NO_LOGICAL}, phys \in TlbPhys :
        /\ pblock' = [pblock EXCEPT ![PageOf(phys)] = TRUE]
        /\ SetTLB(mem_flush_write_page(TLB, phys, virt))
        /\ last' = [op |-> "codegen_block_init", virt |-> virt, phys |-> phys]
        /\ wcalls' = Overflow
        /\ UNCHANGED <<recomp_page, focus, rcalls, regvars, a20vars, cfgvars, sndvars, physvars, nops>>

\* the recompiler starts and ends the recompilation of a page
CodegenRecompPage ==
    /\ focus = "write"
    /\ \E r \in TlbPhys \cup {EMPTY} :
        /\ r # recomp_page
        /\ recomp_page' = r
        /\ last' = [op |-> "recomp_page", virt |-> 0, phys |-> 0]
        /\ UNCHANGED <<tlbvars, pblock, focus, rcalls, wcalls, regvars, a20vars, cfgvars, sndvars, physvars, nops>>

\* mem_reset_page_blocks: no page has a code block any more
mem_reset_page_blocks ==
    /\ \E p \in DOMAIN pblock : pblock[p]
    /\ pblock' = [p \in DOMAIN pblock |-> FALSE]
    /\ last' = [op |-> "mem_reset_page_blocks", virt |-> 0, phys |-> 0]
    /\ UNCHANGED <<tlbvars, recomp_page, focus, rcalls, wcalls, regvars, a20vars, cfgvars, sndvars, physvars, nops>>

TlbNext ==
    \/ TlbAddRead
    \/ TlbAddWrite
    \/ TlbFlush
    \/ TlbReset
    \/ TlbFlushWritePage
    \/ CodegenBlockInit
    \/ CodegenRecompPage
    \/ mem_reset_page_blocks

SpecTlb == TlbInit /\ [][TlbNext]_vars

-----------------------------------------------------------------------------
(* The region registry: the devices' calls on their two mappings, the      *)
(* visibility policy setter, a direct recalculation, the hard reset, and a *)
(* guest access that fills the translation caches.                         *)

\* operations in a run after the construction
MaxRegOps == 3

RegBases == {160, 256}
RegSizes == {0, 96, 256}
RegHandlers == {<<TRUE, TRUE>>, <<TRUE, FALSE>>}
RegExecs == {NOEXEC, [buf |-> "dev", off |-> 0]}
\* what a device registers: a memory window, a ROM, internal shadow memory
RegKinds ==
    { [rd |-> TRUE, wr |-> TRUE, exec |-> NOEXEC, fl |-> {"EXTERNAL"}],
      [rd |-> TRUE, wr |-> FALSE, exec |-> [buf |-> "dev", off |-> 0],
       fl |-> {"EXTERNAL", "ROMCS"}],
      [rd |-> TRUE, wr |-> TRUE, exec |-> [buf |-> "dev", off |-> 0],
       fl |-> {"INTERNAL"}] }
RegStates == {INTERNAL_RW, EXTERNAL_RW, [r |-> "ROMCS", w |-> "ROMCS"]}

\* last.sizes: the sizes mem_mapping_recalc was called with by the handler
RegStep(r, op, m, sizes) ==
    /\ nops' = nops + 1
    /\ SetMachine(r)
    /\ last' = [op |-> op, m |-> m, sizes |-> sizes]
    /\ UNCHANGED <<recomp_page, in_smm, cfgvars, sndvars, physvars, focus, rcalls, wcalls>>

RegInit ==
    /\ PhysIdle
    /\ in_smm \in BOOLEAN
    /\ AT = TRUE
    /\ dma = DmaReset
    /\ cpu_16bitbus = FALSE
    /\ InitMachine(mem_reset(MachineZero(TlbEmpty)))
    /\ recomp_page = EMPTY
    /\ focus = "registry"
    /\ last = [op |-> "mem_init", m |-> NOMAP, sizes |-> {}]
    /\ rcalls = << >>
    /\ wcalls = << >>
    /\ nops = 0

RegAdd ==
    /\ nops < MaxRegOps
    /\ \E m \in DevMaps, base \in RegBases, size \in RegSizes, k \in RegKinds :
           RegStep(mem_mapping_add(Machine, m, base, size, k.rd, k.wr, k.exec, k.fl),
                   "mem_mapping_add", m, {size})

RegDel ==
    /\ nops < MaxRegOps
    /\ \E m \in DevMaps :
           RegStep(mem_mapping_del(Machine, m), "mem_mapping_del", m,
                   {mapping[m].size})

RegEnable ==
    /\ nops < MaxRegOps
    /\ \E m \in DevMaps :
           RegStep(mem_mapping_enable(Machine, m), "mem_mapping_enable", m,
                   {mapping[m].size})

RegDisable ==
    /\ nops < MaxRegOps
    /\ \E m \in DevMaps :
           RegStep(mem_mapping_disable(Machine, m), "mem_mapping_disable", m,
                   {mapping[m].size})

RegSetAddr ==
    /\ nops < MaxRegOps
    /\ \E m \in DevMaps, base \in RegBases, size \in RegSizes :
           RegStep(mem_mapping_set_addr(Machine, m, base, size),
                   "mem_mapping_set_addr", m, {mapping[m].size, size})

RegSetHandler ==
    /\ nops < MaxRegOps
    /\ \E m \in DevMaps, h \in RegHandlers :
           RegStep(mem_mapping_set_handler(Machine, m, h[1], h[2]),
                   "mem_mapping_set_handler", m, {mapping[m].size})

RegSetExec ==
    /\ nops < MaxRegOps
    /\ \E m \in DevMaps, exec \in RegExecs :
           RegStep(mem_mapping_set_exec(Machine, m, exec),
                   "mem_mapping_set_exec", m, {mapping[m].size})

RegSetMemState ==
    /\ nops < MaxRegOps
    /\ \E smm \in BOOLEAN, base \in RegBases, size \in RegSizes, st \in RegStates :
           RegStep(mem_set_mem_state_common(Machine, smm, base, size, st),
                   "mem_set_mem_state", NOMAP, {size})

RegRecalc ==
    /\ nops < MaxRegOps
    /\ \E base \in RegBases, size \in RegSizes :
           RegStep(mem_mapping_recalc(Machine, base, size),
                   "mem_mapping_recalc", NOMAP, {size})

RegReset ==
    /\ nops < MaxRegOps
    /\ RegStep(mem_reset(Machine), "mem_reset", NOMAP, {KB(mem_size)})

\* a guest access to RAM that is translated afresh enters its page in the
\* read cache or in the write cache
RegLookup ==
    /\ nops < MaxRegOps
    /\ \E w \in BOOLEAN :
           RegStep([Machine EXCEPT !.tlb =
                       IF w THEN addwritelookup(@, pblock, recomp_page, 0, 0)
                       ELSE addreadlookup(@, 0, 0)],
                   "lookup", NOMAP, {})

RegNext ==
    \/ RegAdd
    \/ RegDel
    \/ RegEnable
    \/ RegDisable
    \/ RegSetAddr
    \/ RegSetHandler
    \/ RegSetExec
    \/ RegSetMemState
    \/ RegRecalc
    \/ RegReset
    \/ RegLookup

SpecReg == RegInit /\ [][RegNext]_vars

-----------------------------------------------------------------------------
(* The A20 gate: the keyboard controller and port 92h set mem_a20_key and  *)
(* mem_a20_alt, mem_a20_recalc applies them, a hard reset reinitialises,   *)
(* and guest accesses fill the translation caches.                         *)

A20Values == {0, 1, 2}

\* last.state, last.mask, last.cached: mem_a20_state, rammask and whether a
\* translation was cached when the operation started; last.new: the
\* mem_a20_key | mem_a20_alt it started with
A20Step(r, op) ==
    /\ SetMachine(r)
    /\ last' = [op |-> op, state |-> mem_a20_state, mask |-> rammask,
                new |-> BitOr(mem_a20_key, mem_a20_alt),
                cached |-> \E v \in TlbPages :
                    readlookup2[v] # EMPTY \/ writelookup2[v] # EMPTY
                    \/ page_lookup[v] # NULLPAGE]
    /\ UNCHANGED <<recomp_page, in_smm, cfgvars, sndvars, physvars, focus, rcalls, wcalls, nops>>

A20Init ==
    /\ PhysIdle
    /\ AT \in BOOLEAN
    /\ dma = DmaReset
    /\ cpu_16bitbus \in BOOLEAN
    /\ in_smm = FALSE
    /\ InitMachine(mem_reset(MachineZero(TlbEmpty)))
    /\ recomp_page = EMPTY
    /\ focus = "a20"
    /\ last = [op |-> "mem_init", state |-> 0, mask |-> {}, new |-> 0,
               cached |-> FALSE]
    /\ rcalls = << >>
    /\ wcalls = << >>
    /\ nops = 0

A20SetKey ==
    /\ focus = "a20"
    /\ \E k \in A20Values \ {mem_a20_key} :
           A20Step([Machine EXCEPT !.mem_a20_key = k], "mem_a20_key")

A20SetAlt ==
    /\ focus = "a20"
    /\ \E k \in A20Values \ {mem_a20_alt} :
           A20Step([Machine EXCEPT !.mem_a20_alt = k], "mem_a20_alt")

A20Recalc ==
    /\ focus = "a20"
    /\ A20Step(mem_a20_recalc(Machine), "mem_a20_recalc")

A20Reset ==
    /\ focus = "a20"
    /\ A20Step(mem_reset(Machine), "mem_reset")

A20Lookup ==
    /\ focus = "a20"
    /\ \E w \in BOOLEAN :
           A20Step([Machine EXCEPT !.tlb =
                       IF w THEN addwritelookup(@, pblock, recomp_page, 0, 0)
                       ELSE addreadlookup(@, 0, 0)], "lookup")

A20Next ==
    \/ A20SetKey
    \/ A20SetAlt
    \/ A20Recalc
    \/ A20Reset
    \/ A20Lookup

SpecA20 == A20Init /\ [][A20Next]_vars

-----------------------------------------------------------------------------
(* Guest accesses through the logical entry points: a guest that has built *)
(* a page directory in physical page 0 and a page table in physical page 1 *)
(* (mapping the table itself at virtual page 1) reads and writes bytes,    *)
(* words and doublewords, with paging on or off, and invalidates the       *)
(* translation caches.                                                      *)

\* operations in a run after the construction
MaxAccOps == 3

AccFrames == 0 .. 3
\* the virtual pages accessed: the page table and a data page
AccPages == {1, 2}
AccOffs == {8, 9}
AccWidths == {1, 2, 4}
\* the low byte of the values written; the other bytes are 0
AccVals == {0, 48}
Val(v, w) == [i \in 1..w |-> IF i = 1 THEN v ELSE 0]

\* the RAM cells followed: the directory entry, the table entries of the
\* virtual pages 0 and 1, and the bytes at offsets 8..12 of every page
AccCells ==
    (0 .. 3) \cup (4096 .. 4103)
    \cup { 4096 * f + o : f \in AccFrames, o \in 8 .. 12 }

\* directory entry 0 -> table in page 1; table entries 0, 1, 2 -> pages 0,
\* 1, 2 (present, writable, user); a byte of code in page 3, which has a
\* code block
AccImage ==
    [a \in AccCells |->
        CASE a \in {0, 4096, 4100, 4104} -> 7
          [] a \in {1, 4101}             -> 16
          [] a = 4105                    -> 32
          [] a = 12297                   -> 85
          [] OTHER                       -> 0]

\* the cached value a misaligned access within a page is served from
CacheServed(addr, w) ==
    /\ Misaligned(addr, w)
    /\ ~CrossesPage(addr, w)
    /\ readlookup2[PageOf(addr)] # EMPTY

\* the directory and table entry that translate virtual page v, without
\* their accessed and dirty bits
EntryKey(r, v) ==
    IF "PG" \notin cr0 THEN << >>
    ELSE LET pde == rammap(r, PageBase(cr3) + 4 * (v \div 1024))
             pte == rammap(r, PageBase(pde) + 4 * (v % 1024))
         IN  << pde - BitAnd(pde, 96), pte - BitAnd(pte, 96) >>

AccInit ==
    /\ AT = TRUE
    /\ dma = DmaReset
    /\ cpu_16bitbus = FALSE
    /\ in_smm = FALSE
    /\ new_dynarec \in BOOLEAN
    /\ recomp_page = EMPTY
    /\ InitMachine([mem_reset(MachineZero(TlbEmpty)) EXCEPT
                       !.pblock = [f \in AccFrames |-> f = 3]])
    /\ pages = [f \in AccFrames |->
                  [PageZero EXCEPT
                     !.dirty_mask = IF f = 2 THEN {} ELSE {0},
                     !.code_present_mask = IF f = 3 THEN {0} ELSE {}]]
    /\ byte_code_present_mask = IF new_dynarec THEN { 12297 } ELSE {}
    /\ ram = AccImage
    /\ byte_dirty_mask =
          IF new_dynarec THEN { a \in AccCells : AccImage[a] # 0 } ELSE {}
    /\ purgable_page_list_head = 0
    /\ purgeable_page_count = 0
    /\ codegen_in_recompile = FALSE
    /\ cr0 \in { {}, {"PG"} }
    /\ cr3 = 0
    /\ cr4 = {}
    /\ CPL = 0
    /\ cpl_override = FALSE
    /\ abrt = FALSE
    /\ cr2 = 0
    /\ abrt_error = 0
    /\ mem_logical_addr = 0
    /\ touched = {}
    /\ focus = "access"
    /\ last = [op |-> "init", addr |-> 0, w |-> 0, val |-> << >>,
               changed |-> {}, served |-> FALSE]
    /\ rcalls = << >>
    /\ wcalls = << >>
    /\ nops = 0

\* readmembl, readmemwl, readmemll at a logical address
AccRead ==
    /\ nops < MaxAccOps
    /\ focus = "access"
    /\ \E v \in AccPages, off \in AccOffs, w \in AccWidths :
        LET addr == 4096 * v + off
        IN  \E r \in { ReadMem(Mem, addr, w) } :
            /\ SetMem(r.m)
            /\ touched' = { x \in touched :
                              readlookup2[x] # EMPTY /\ r.m.tlb.readlookup2[x] # EMPTY }
            /\ last' = [op |-> "read", addr |-> addr, w |-> w, val |-> r.val,
                        changed |-> {}, served |-> w > 1 /\ CacheServed(addr, w)]
    /\ nops' = nops + 1
    /\ UNCHANGED <<cgvars, regvars, a20vars, cfgvars, sndvars, byte_code_present_mask,
                   codegen_in_recompile, cpuvars, focus, rcalls, wcalls>>

\* writemembl, writememwl, writememll at a logical address; last.changed:
\* the RAM bytes the store changed
AccWrite ==
    /\ nops < MaxAccOps
    /\ focus = "access"
    /\ \E v \in AccPages, off \in AccOffs, w \in AccWidths, b \in AccVals :
        LET addr == 4096 * v + off
        IN  \E m \in { WriteMem(Mem, addr, Val(b, w)) },
               walked \in { IF WriteRoute(TLB, addr, w) = "dispatch"
                            THEN Translate(Mem, addr, TRUE).m.ram ELSE ram } :
            /\ SetMem(m)
            /\ touched' = touched \cup
                  { x \in TlbPages : readlookup2[x] # EMPTY
                                     /\ EntryKey(m.ram, x) # EntryKey(ram, x) }
            /\ last' = [op |-> "write", addr |-> addr, w |-> w, val |-> Val(b, w),
                        changed |-> { a \in AccCells : m.ram[a] # walked[a] },
                        served |-> FALSE]
    /\ nops' = nops + 1
    /\ UNCHANGED <<cgvars, regvars, a20vars, cfgvars, sndvars, byte_code_present_mask,
                   codegen_in_recompile, cpuvars, focus, rcalls, wcalls>>

\* mmu_invalidate, or the reload of CR3 with its value: flushmmucache_cr3
AccFlush ==
    /\ nops < MaxAccOps
    /\ focus = "access"
    /\ SetMem([Mem EXCEPT !.tlb = flushmmucache_cr3(@)])
    /\ touched' = {}
    /\ last' = [op |-> "flush", addr |-> 0, w |-> 0, val |-> << >>,
                changed |-> {}, served |-> FALSE]
    /\ nops' = nops + 1
    /\ UNCHANGED <<cgvars, regvars, a20vars, cfgvars, sndvars, byte_code_present_mask,
                   codegen_in_recompile, cpuvars, focus, rcalls, wcalls>>

AccNext ==
    \/ AccRead
    \/ AccWrite
    \/ AccFlush

SpecAcc == AccInit /\ [][AccNext]_vars

-----------------------------------------------------------------------------
(* The page write handlers and the eviction list: the handlers called on   *)
(* any page of the table, the recompiler marking sub-blocks as holding     *)
(* code, putting pages on the eviction list and taking them off, and      *)
(* entering and leaving a recompilation.                                    *)

\* operations in a run after the construction
MaxPageOps == 3

PagePages == 0 .. 2
\* page offsets written: the start of a page, the last byte of a 16-byte
\* and of a 64-byte sub-block
PageOffs == {0, 15, 63}
PageCells == { 4096 * p + o + i : p \in PagePages, o \in PageOffs, i \in 0 .. 3 }

\* the pages reached by following evict_next from page h; 0 ends the list
RECURSIVE EvictWalk(_, _, _)
EvictWalk(pg, h, fuel) ==
    IF h = 0 \/ fuel = 0 THEN {}
    ELSE {h} \cup EvictWalk(pg, pg[h].evict_next, fuel - 1)

EvictList == EvictWalk(pages, purgable_page_list_head, Cardinality(DOMAIN pages))

PageStep(m, op, p, hit, same) ==
    /\ nops' = nops + 1
    /\ SetMem(m)
    /\ last' = [op |-> op, p |-> p, hit |-> hit, same |-> same]
    /\ UNCHANGED <<cgvars, regvars, a20vars, cfgvars, sndvars, cpuvars, touched,
                   focus, rcalls, wcalls>>

PageInit ==
    /\ AT = TRUE
    /\ dma = DmaReset
    /\ cpu_16bitbus = FALSE
    /\ in_smm = FALSE
    /\ new_dynarec \in BOOLEAN
    /\ recomp_page = EMPTY
    /\ InitMachine(mem_reset(MachineZero(TlbEmpty)))
    /\ ram = [a \in PageCells |-> 0]
    /\ pages = [p \in PagePages |-> PageZero]
    /\ byte_dirty_mask = {}
    /\ byte_code_present_mask = {}
    /\ purgable_page_list_head = 0
    /\ purgeable_page_count = 0
    /\ codegen_in_recompile = FALSE
    /\ cr0 = {}
    /\ cr3 = 0
    /\ cr4 = {}
    /\ CPL = 0
    /\ cpl_override = FALSE
    /\ abrt = FALSE
    /\ cr2 = 0
    /\ abrt_error = 0
    /\ mem_logical_addr = 0
    /\ touched = {}
    /\ focus = "pages"
    /\ last = [op |-> "mem_reset", p |-> 0, hit |-> FALSE, same |-> FALSE]
    /\ rcalls = << >>
    /\ wcalls = << >>
    /\ nops = 0

\* mem_write_ramb_page, mem_write_ramw_page or mem_write_raml_page on page
\* p; last.hit: the call changed a byte of a sub-block whose code-present
\* bit was set; last.same: the value written equals the value stored
PageHandlerCall ==
    /\ nops < MaxPageOps
    /\ focus = "pages"
    /\ \E p \in PagePages, o \in PageOffs, w \in AccWidths, b \in AccVals :
        LET m == PageWrite(Mem, 4096 * p + o, Val(b, w), p)
        IN  /\ PageStep(m, "write", p,
                        \E a \in PageCells :
                            /\ m.ram[a] # ram[a]
                            /\ SubBlockOf(a) \in pages[PageOf(a)].code_present_mask,
                        Val(b, w) = RamRead(ram, 4096 * p + o, w))
            /\ UNCHANGED <<byte_code_present_mask, codegen_in_recompile>>

\* the recompiler records that sub-block s of page p holds code
CodegenMarkCode ==
    /\ nops < MaxPageOps
    /\ focus = "pages"
    /\ \E p \in PagePages, s \in {0, 1} :
        /\ s \notin pages[p].code_present_mask
        /\ PageStep([Mem EXCEPT !.pages[p].code_present_mask = @ \cup {s}],
                    "code", p, FALSE, FALSE)
        /\ byte_code_present_mask' =
              IF new_dynarec
              THEN byte_code_present_mask \cup { a \in PageCells : PageOf(a) = p /\ SubBlockOf(a) = s }
              ELSE byte_code_present_mask
        /\ UNCHANGED codegen_in_recompile

\* the recompiler puts a page that is not in the list on the list
PageEvictAdd ==
    /\ nops < MaxPageOps
    /\ focus = "pages"
    /\ new_dynarec
    /\ \E p \in PagePages :
        /\ ~page_in_evict_list(Mem, p)
        /\ PageStep(page_add_to_evict_list(Mem, p), "add", p, FALSE, FALSE)
    /\ UNCHANGED <<byte_code_present_mask, codegen_in_recompile>>

\* the recompiler takes a page that is in the list off the list
PageEvictRemove ==
    /\ nops < MaxPageOps
    /\ focus = "pages"
    /\ new_dynarec
    /\ \E p \in PagePages :
        /\ page_in_evict_list(Mem, p)
        /\ PageStep(page_remove_from_evict_list(Mem, p), "remove", p, FALSE, FALSE)
    /\ UNCHANGED <<byte_code_present_mask, codegen_in_recompile>>

\* page_remove_from_evict_list on a page whose evict_prev says it is not in
\* the list: fatal() ends the process
PageEvictRemoveAbsent ==
    /\ nops < MaxPageOps
    /\ focus = "pages"
    /\ new_dynarec
    /\ \E p \in PagePages :
        /\ ~page_in_evict_list(Mem, p)
        /\ SetMem(page_remove_from_evict_list(Mem, p))
        /\ last' = [op |-> "remove", p |-> p, hit |-> FALSE, same |-> FALSE]
    /\ focus' = "fatal"
    /\ nops' = nops + 1
    /\ UNCHANGED <<cgvars, regvars, a20vars, cfgvars, sndvars, cpuvars, touched, rcalls,
                   wcalls, byte_code_present_mask, codegen_in_recompile>>

\* a DMA transfer or a device invalidates the bytes start .. start + len
PageInvalidate ==
    /\ nops < MaxPageOps
    /\ focus = "pages"
    /\ \E p \in PagePages, o \in PageOffs, len \in {0, 3} :
        PageStep(mem_invalidate_range(Mem, 4096 * p + o, 4096 * p + o + len),
                 "invalidate", p, FALSE, FALSE)
    /\ UNCHANGED <<byte_code_present_mask, codegen_in_recompile>>

\* the recompiler enters or leaves a recompilation
CodegenInRecompile ==
    /\ nops < MaxPageOps
    /\ focus = "pages"
    /\ codegen_in_recompile' = ~codegen_in_recompile
    /\ PageStep(Mem, "recompile", 0, FALSE, FALSE)
    /\ UNCHANGED byte_code_present_mask

PageNext ==
    \/ PageHandlerCall
    \/ CodegenMarkCode
    \/ PageEvictAdd
    \/ PageEvictRemove
    \/ PageEvictRemoveAbsent
    \/ PageInvalidate
    \/ CodegenInRecompile

SpecPage == PageInit /\ [][PageNext]_vars

-----------------------------------------------------------------------------
(* The page-table walkers on their own: mmutranslatereal and               *)
(* mmutranslate_noabrt called on paging structures of every permission     *)
(* combination, in the 2-level format with and without 4 MiB pages and in  *)
(* the PAE format, at both privilege levels.                                *)

\* walks in a run after the construction
MaxWalkOps == 2

\* linear addresses walked: two addresses of virtual page 5
WalkAddrs == {22136, 23228}

\* where the entries that translate virtual page 5 lie: the 2-level
\* directory entry and the PAE directory-pointer entry at CR3 = 0, the PAE
\* directory in frame 1, the table in frame 2
WalkPdeAt == IF "PAE" \in cr4 THEN 4096 ELSE 0
WalkPteAt == IF "PAE" \in cr4 THEN 8232 ELSE 8212
WalkCells == (0 .. 7) \cup (4096 .. 4103) \cup (8212 .. 8215) \cup (8232 .. 8239)

\* the frame of a large page
WalkBigFrame(pae) == IF pae THEN 2097152 ELSE 4194304

\* permission and present bits of an entry: any of P (1), R/W (2), U/S (4)
WalkFlags == 0 .. 7

\* byte i (from 0) of the number v
ByteOfNum(v, i) == (v \div Pow2(8 * i)) % 256

\* the RAM image with entry top at CR3 (PAE only), pde at pdeAt and
\* pte at pteAt
WalkImage(pae, top, pde, pte) ==
    LET pdeAt == IF pae THEN 4096 ELSE 0
        pteAt == IF pae THEN 8232 ELSE 8212
    IN  [a \in WalkCells |->
           CASE a \in pteAt .. pteAt + 3 -> ByteOfNum(pte, a - pteAt)
             [] a \in pdeAt .. pdeAt + 3 -> ByteOfNum(pde, a - pdeAt)
             [] pae /\ a \in 0 .. 3      -> ByteOfNum(top, a)
             [] OTHER                     -> 0]

WalkInit ==
    /\ AT = TRUE
    /\ dma = DmaReset
    /\ cpu_16bitbus = FALSE
    /\ in_smm = FALSE
    /\ new_dynarec = TRUE
    /\ recomp_page = EMPTY
    /\ InitMachine(mem_reset(MachineZero(TlbEmpty)))
    /\ pages = [f \in 0 .. 3 |-> PageZero]
    /\ byte_dirty_mask = {}
    /\ byte_code_present_mask = {}
    /\ purgable_page_list_head = 0
    /\ purgeable_page_count = 0
    /\ codegen_in_recompile = FALSE
    /\ cr0 \in { {"PG"}, {"PG", "WP"} }
    /\ cr3 = 0
    /\ cr4 \in { {}, {"PSE"}, {"PAE"} }
    /\ CPL \in {0, 3}
    /\ cpl_override \in BOOLEAN
    /\ abrt = FALSE
    /\ cr2 = 0
    /\ abrt_error = 0
    /\ \E top \in (IF "PAE" \in cr4 THEN WalkFlags ELSE {0}),
          dir \in WalkFlags, tab \in WalkFlags, ps \in BOOLEAN :
          LET big == ps /\ cr4 # {}
          IN  ram = WalkImage("PAE" \in cr4, 4096 + top,
                              (IF big THEN WalkBigFrame("PAE" \in cr4) ELSE 8192)
                                 + dir + (IF ps THEN 128 ELSE 0),
                              12288 + tab)
    /\ mem_logical_addr = 0
    /\ touched = {}
    /\ focus = "walk"
    /\ last = [op |-> "init", addr |-> 0, rw |-> FALSE, phys |-> 0, real |-> 0,
               pre |-> [ram |-> << >>, abrt |-> FALSE, cr2 |-> 0, abrt_error |-> 0]]
    /\ rcalls = << >>
    /\ wcalls = << >>
    /\ nops = 0

\* the fault sink before a walk, kept for stating what the walk changed
WalkPre == [ram |-> ram, abrt |-> abrt, cr2 |-> cr2, abrt_error |-> abrt_error]

\* mmutranslate_read(addr) or mmutranslate_write(addr)
WalkReal ==
    /\ nops < MaxWalkOps
    /\ focus = "walk"
    /\ \E addr \in WalkAddrs, rw \in BOOLEAN :
        \E t \in { mmutranslatereal(Mem, addr, rw) } :
            /\ SetMem(t.m)
            /\ abrt' = t.m.abrt
            /\ cr2' = t.m.cr2
            /\ abrt_error' = t.m.abrt_error
            /\ last' = [op |-> "walk", addr |-> addr, rw |-> rw, phys |-> t.phys,
                        real |-> t.phys, pre |-> WalkPre]
    /\ nops' = nops + 1
    /\ UNCHANGED <<cgvars, regvars, a20vars, cfgvars, sndvars, byte_code_present_mask,
                   codegen_in_recompile, cr0, cr3, cr4, CPL, cpl_override,
                   touched, focus, rcalls, wcalls>>

\* mmutranslate_noabrt(addr, rw); last.real: what mmutranslatereal returns
\* in the same state
WalkNoabrt ==
    /\ nops < MaxWalkOps
    /\ focus = "walk"
    /\ \E addr \in WalkAddrs, rw \in BOOLEAN :
        last' = [op |-> "noabrt", addr |-> addr, rw |-> rw,
                 phys |-> mmutranslate_noabrt(Mem, addr, rw),
                 real |-> mmutranslatereal(Mem, addr, rw).phys, pre |-> WalkPre]
    /\ nops' = nops + 1
    /\ UNCHANGED <<tlbvars, cgvars, regvars, a20vars, cfgvars, sndvars, physvars,
                   focus, rcalls, wcalls>>

WalkNext ==
    \/ WalkReal
    \/ WalkNoabrt

SpecWalk == WalkInit /\ [][WalkNext]_vars

-----------------------------------------------------------------------------
(* The logical entry points at the edges: accesses of every width, within  *)
(* a page and across a page boundary, to pages that are mapped to RAM,     *)
(* mapped to a chunk that has no owner, or not present, with paging on and *)
(* off and in both builds.                                                  *)

\* accesses in a run after the construction
MaxEdgeOps == 2

\* the virtual pages the caches follow: two data pages and, for the build
\* that hands a physical address back to readmemll, the pages whose number
\* is that of a frame without an owner
EdgePages == {1, 2, 160, 161}
EdgeFrames == 0 .. 3
EdgeWidths == {1, 2, 4, 8}
\* 0x1008, 0x1009, 0x1ff9, 0x1ffd, 0x1fff, 0x2008, 0xa0008, 0xa0009
EdgeAddrs == {4104, 4105, 8185, 8189, 8191, 8200, 655368, 655369}

\* what the table entry of a data page holds: a RAM frame, a frame of the
\* chunk at 0xa0000 that no region owns, or no present bit
EdgeKinds == {"ram", "none", "np"}

\* the table entry of virtual page v (1 or 2) of kind k: frames 2 and 3 of
\* RAM, frames 160 and 161 of the chunk without an owner
EdgeEntry(v, k) ==
    CASE k = "ram"  -> 4096 * (v + 1) + 7
      [] k = "none" -> 4096 * (159 + v) + 7
      [] OTHER      -> 0

\* the RAM cells followed: directory entry 0, the table entries of the
\* virtual pages 1 and 2 in frame 1, and both ends of frames 1 to 3
EdgeCells ==
    (0 .. 3) \cup (4100 .. 4107)
    \cup { 4096 * f + o : f \in 1 .. 3, o \in (0 .. 16) \cup (4089 .. 4095) }

EdgeImage(k1, k2) ==
    [a \in EdgeCells |->
        CASE a \in 0 .. 3       -> ByteOfNum(4096 + 7, a)
          [] a \in 4100 .. 4103 -> ByteOfNum(EdgeEntry(1, k1), a - 4100)
          [] a \in 4104 .. 4107 -> ByteOfNum(EdgeEntry(2, k2), a - 4104)
          [] OTHER              -> 0]

EdgeTlb ==
    [TlbEmpty EXCEPT !.readlookup2 = [v \in EdgePages |-> EMPTY],
                     !.writelookup2 = [v \in EdgePages |-> EMPTY],
                     !.page_lookup = [v \in EdgePages |-> NULLPAGE]]

\* what an access can change, kept for stating what it did change
EdgePre ==
    [ram |-> ram, tlb |-> TLB, pages |-> pages, abrt |-> abrt, cr2 |-> cr2,
     abrt_error |-> abrt_error]

\* the physical address of a byte before the access; FAULT when its walk
\* faults
EdgePhys(a, rw) == Translate(Mem, a, rw).phys

\* a cache holds an entry for the page of byte a
EdgeCached(a) ==
    \/ readlookup2[PageOf(a)] # EMPTY
    \/ writelookup2[PageOf(a)] # EMPTY
    \/ page_lookup[PageOf(a)] # NULLPAGE

EdgeInit ==
    /\ AT = TRUE
    /\ dma = DmaReset
    /\ cpu_16bitbus = FALSE
    /\ in_smm = FALSE
    /\ new_dynarec \in BOOLEAN
    /\ recomp_page = EMPTY
    /\ InitMachine([mem_reset(MachineZero(EdgeTlb)) EXCEPT
                       !.pblock = [f \in EdgeFrames |-> FALSE]])
    /\ pages = [f \in EdgeFrames |-> PageZero]
    /\ byte_dirty_mask = {}
    /\ byte_code_present_mask = {}
    /\ purgable_page_list_head = 0
    /\ purgeable_page_count = 0
    /\ codegen_in_recompile = FALSE
    /\ cr0 \in { {}, {"PG"} }
    /\ cr3 = 0
    /\ cr4 = {}
    /\ CPL = 0
    /\ cpl_override = FALSE
    /\ abrt = FALSE
    /\ cr2 = 0
    /\ abrt_error = 0
    /\ \E k1 \in EdgeKinds, k2 \in EdgeKinds :
          /\ ("PG" \notin cr0) => (k1 = "ram" /\ k2 = "ram")
          /\ ram = EdgeImage(k1, k2)
    /\ mem_logical_addr = 0
    /\ touched = {}
    /\ focus = "edge"
    /\ last = [op |-> "init", addr |-> 0, w |-> 0, val |-> << >>,
               phys1 |-> 0, phys2 |-> 0, cached |-> FALSE, pre |-> << >>]
    /\ rcalls = << >>
    /\ wcalls = << >>
    /\ nops = 0

\* readmembl, readmemwl, readmemll, readmemql at a logical address
EdgeRead ==
    /\ nops < MaxEdgeOps
    /\ focus = "edge"
    /\ \E addr \in EdgeAddrs, w \in EdgeWidths :
        \E r \in { ReadMem(Mem, addr, w) } :
            /\ SetMem(r.m)
            /\ abrt' = r.m.abrt
            /\ cr2' = r.m.cr2
            /\ abrt_error' = r.m.abrt_error
            /\ last' = [op |-> "read", addr |-> addr, w |-> w, val |-> r.val,
                        phys1 |-> EdgePhys(addr, FALSE),
                        phys2 |-> EdgePhys(addr + w - 1, FALSE),
                        cached |-> EdgeCached(addr) \/ EdgeCached(addr + w - 1),
                        pre |-> EdgePre]
    /\ nops' = nops + 1
    /\ UNCHANGED <<cgvars, regvars, a20vars, cfgvars, sndvars, byte_code_present_mask,
                   codegen_in_recompile, cr0, cr3, cr4, CPL, cpl_override,
                   touched, focus, rcalls, wcalls>>

\* writemembl, writememwl, writememll, writememql at a logical address, of
\* the value with bytes 17, 18, ...
EdgeWrite ==
    /\ nops < MaxEdgeOps
    /\ focus = "edge"
    /\ \E addr \in EdgeAddrs, w \in EdgeWidths :
        \E m \in { WriteMem(Mem, addr, [i \in 1 .. w |-> 16 + i]) } :
            /\ SetMem(m)
            /\ abrt' = m.abrt
            /\ cr2' = m.cr2
            /\ abrt_error' = m.abrt_error
            /\ last' = [op |-> "write", addr |-> addr, w |-> w,
                        val |-> [i \in 1 .. w |-> 16 + i],
                        phys1 |-> EdgePhys(addr, TRUE),
                        phys2 |-> EdgePhys(addr + w - 1, TRUE),
                        cached |-> EdgeCached(addr) \/ EdgeCached(addr + w - 1),
                        pre |-> EdgePre]
    /\ nops' = nops + 1
    /\ UNCHANGED <<cgvars, regvars, a20vars, cfgvars, sndvars, byte_code_present_mask,
                   codegen_in_recompile, cr0, cr3, cr4, CPL, cpl_override,
                   touched, focus, rcalls, wcalls>>

EdgeNext ==
    \/ EdgeRead
    \/ EdgeWrite

SpecEdge == EdgeInit /\ [][EdgeNext]_vars

-----------------------------------------------------------------------------
(* The physical accessors beside the guest's accesses: DMA and the CPU     *)
(* core read and write physical addresses of the guest's data page while   *)
(* the guest's accesses fill the translation caches, and the chipset sets  *)
(* and clears the exec pointer of conventional RAM.                        *)

PhysAddrs == {8200, 8201}

\* mem_readb_phys, mem_readw_phys, mem_readl_phys
PhysRead ==
    /\ nops < MaxAccOps
    /\ focus = "access"
    /\ \E addr \in PhysAddrs, w \in AccWidths, inb \in BOOLEAN :
        \E r \in { mem_read_phys(Mem, addr, w, inb) } :
            /\ SetMem(r.m)
            /\ abrt' = r.m.abrt
            /\ cr2' = r.m.cr2
            /\ abrt_error' = r.m.abrt_error
            /\ last' = [op |-> "phys_read", addr |-> addr, w |-> w, val |-> r.val,
                        changed |-> {}, served |-> FALSE]
    /\ nops' = nops + 1
    /\ UNCHANGED <<cgvars, regvars, a20vars, cfgvars, sndvars, byte_code_present_mask,
                   codegen_in_recompile, cr0, cr3, cr4, CPL, cpl_override,
                   touched, focus, rcalls, wcalls>>

\* mem_writeb_phys, mem_writew_phys, mem_writel_phys
PhysWrite ==
    /\ nops < MaxAccOps
    /\ focus = "access"
    /\ \E addr \in PhysAddrs, w \in AccWidths, inb \in BOOLEAN :
        \E m \in { mem_write_phys(Mem, addr, Val(48, w), inb) } :
            /\ SetMem(m)
            /\ abrt' = m.abrt
            /\ cr2' = m.cr2
            /\ abrt_error' = m.abrt_error
            /\ last' = [op |-> "phys_write", addr |-> addr, w |-> w,
                        val |-> Val(48, w),
                        changed |-> { a \in AccCells : m.ram[a] # ram[a] },
                        served |-> FALSE]
    /\ nops' = nops + 1
    /\ UNCHANGED <<cgvars, regvars, a20vars, cfgvars, sndvars, byte_code_present_mask,
                   codegen_in_recompile, cr0, cr3, cr4, CPL, cpl_override,
                   touched, focus, rcalls, wcalls>>

\* mem_mapping_set_exec on the mapping of conventional RAM; with paging on
\* the walker reads the guest's tables through the exec pointer, so it is
\* cleared only with paging off
PhysSetExec ==
    /\ nops < MaxAccOps
    /\ focus = "access"
    /\ \E exec \in {NOEXEC, RamExec(0)} \ {mapping["ram_low"].exec} :
        /\ exec = NOEXEC => "PG" \notin cr0
        /\ SetMachine(mem_mapping_set_exec(Machine, "ram_low", exec))
    /\ touched' = {}
    /\ last' = [op |-> "set_exec", addr |-> 0, w |-> 0, val |-> << >>,
                changed |-> {}, served |-> FALSE]
    /\ nops' = nops + 1
    /\ UNCHANGED <<recomp_page, in_smm, cfgvars, sndvars, memvars, codegen_in_recompile,
                   cpuvars, mem_logical_addr, focus, rcalls, wcalls>>

PhysNext ==
    \/ AccRead
    \/ AccWrite
    \/ AccFlush
    \/ PhysRead
    \/ PhysWrite
    \/ PhysSetExec

SpecPhys == AccInit /\ [][PhysNext]_vars

-----------------------------------------------------------------------------
(* The visibility policies: devices register mappings with every           *)
(* combination of flags over the video window, and the chipset sets the    *)
(* normal and the SMM policy of the window to every policy; the CPU is in  *)
(* system-management mode or not for the whole run.                        *)

MaxPolOps == 3

\* the chunk of the window and its extent in chunks
PolChunk == 160
PolSize == 96
PolFlags == {{}, {"INTERNAL"}, {"EXTERNAL"}, {"ROMCS"}, {"EXTERNAL", "ROMCS"}}
\* MEM_READ_x | MEM_WRITE_y arguments of the policy setters
PolStates ==
    { [r |-> x, w |-> x] : x \in {"DISABLED", "ANY", "EXTERNAL", "ROMCS",
                                   "EXTANY", "INTERNAL", "NORMAL"} }
    \cup { [r |-> "EXTERNAL_EX", w |-> "EXTERNAL"],
           [r |-> "EXTERNAL_EX", w |-> "INTERNAL"],
           [r |-> "NORMAL", w |-> "INTERNAL"], [r |-> "EXTERNAL", w |-> "NORMAL"] }

PolInit ==
    /\ PhysIdle
    /\ in_smm \in BOOLEAN
    /\ AT = TRUE
    /\ dma = DmaReset
    /\ cpu_16bitbus = FALSE
    /\ InitMachine(mem_reset(MachineZero(TlbEmpty)))
    /\ recomp_page = EMPTY
    /\ focus = "policy"
    /\ last = [op |-> "mem_init", m |-> NOMAP, sizes |-> {}]
    /\ rcalls = << >>
    /\ wcalls = << >>
    /\ nops = 0

\* a device registers a mapping with byte accessors, with or without an
\* exec pointer into its own buffer
PolAdd ==
    /\ nops < MaxPolOps
    /\ \E m \in DevMaps, fl \in PolFlags, x \in BOOLEAN :
           /\ ~IsLinkedIn(Machine, m)
           /\ RegStep(mem_mapping_add(Machine, m, PolChunk, PolSize, TRUE, TRUE,
                                      IF x THEN [buf |-> m, off |-> 0] ELSE NOEXEC, fl),
                      "mem_mapping_add", m, {PolSize})

\* mem_set_mem_state and its SMM variant; NORMAL is an SMM policy only
PolSetMemState ==
    /\ nops < MaxPolOps
    /\ \E smm \in BOOLEAN, st \in PolStates :
           /\ smm \/ (st.r # "NORMAL" /\ st.w # "NORMAL")
           /\ RegStep(mem_set_mem_state_common(Machine, smm, PolChunk, PolSize, st),
                      "mem_set_mem_state", NOMAP, {PolSize})

PolNext ==
    \/ PolAdd
    \/ PolSetMemState

SpecPol == PolInit /\ [][PolNext]_vars

-----------------------------------------------------------------------------
(* The logical entry points in front of a device: accesses of every width  *)
(* to the window at 0xa0000 when a device owns it whose accessors are      *)
(* narrower than the access, with paging on and off, in both builds, on an *)
(* AT machine and on one that is not.                                       *)

\* accesses in a run after the construction
MaxDevOps == 2

\* 0x1008 and 0x1009, which the page tables map into the window, and
\* 0xa0008, 0xa0009, 0xa000f in the window itself
DevAddrs == {4104, 4105, 655368, 655369, 655375}
\* the segment bases an access of the build that takes seg and addr comes
\* with: 0, 0xa0000, and 0x90010, for which 0xa000f is offset 0xffff
DevSegs == {0, 589840, 655360}
DevInit ==
    /\ AT \in BOOLEAN
    /\ dma = DmaReset
    /\ cpu_16bitbus = FALSE
    /\ in_smm = FALSE
    /\ new_dynarec \in BOOLEAN
    /\ recomp_page = EMPTY
    /\ \E d \in DevMaps :
          InitMachine([mem_mapping_add(mem_reset(MachineZero(EdgeTlb)), d,
                                       PolChunk, PolSize, TRUE, TRUE, NOEXEC,
                                       {"EXTERNAL"})
                         EXCEPT !.pblock = [f \in EdgeFrames |-> FALSE]])
    /\ pages = [f \in EdgeFrames |-> PageZero]
    /\ byte_dirty_mask = {}
    /\ byte_code_present_mask = {}
    /\ purgable_page_list_head = 0
    /\ purgeable_page_count = 0
    /\ codegen_in_recompile = FALSE
    /\ cr0 \in { {}, {"PG"} }
    /\ ("PG" \in cr0) => AT
    /\ cr3 = 0
    /\ cr4 = {}
    /\ CPL = 0
    /\ cpl_override = FALSE
    /\ abrt = FALSE
    /\ cr2 = 0
    /\ abrt_error = 0
    /\ \E k1 \in {"ram", "none"} :
          /\ ("PG" \notin cr0) => (k1 = "ram")
          /\ ram = EdgeImage(k1, "ram")
    /\ mem_logical_addr = 0
    /\ touched = {}
    /\ focus = "dev"
    /\ last = [op |-> "init", addr |-> 0, w |-> 0, val |-> << >>, seg |-> 0,
               phys |-> 0, reads |-> {}, writes |-> << >>, pre |-> << >>]
    /\ rcalls = << >>
    /\ wcalls = << >>
    /\ nops = 0

\* the segment bases an access at the linear address addr can come with:
\* none in the build whose entry points take the linear address, and on a
\* machine that is not AT those within 64 KiB below the address
DevSegsOf(addr) ==
    IF new_dynarec THEN {0}
    ELSE { sg \in DevSegs : (sg <= addr /\ addr < sg + 65536) \/ (AT /\ sg = 0) }

\* readmembl, readmemwl, readmemll, readmemql at a logical address
DevRead ==
    /\ nops < MaxDevOps
    /\ focus = "dev"
    /\ \E addr \in DevAddrs, w \in EdgeWidths :
        \E sg \in DevSegsOf(addr) :
          \E r \in { ReadMem([Mem EXCEPT !.seg = sg], addr, w) } :
            /\ SetMem(r.m)
            /\ abrt' = r.m.abrt
            /\ cr2' = r.m.cr2
            /\ abrt_error' = r.m.abrt_error
            /\ last' = [op |-> "read", addr |-> addr, w |-> w, val |-> r.val,
                        seg |-> sg, phys |-> EdgePhys(addr, FALSE),
                        reads |-> r.m.dev_reads, writes |-> r.m.dev_writes,
                        pre |-> EdgePre]
    /\ nops' = nops + 1
    /\ UNCHANGED <<cgvars, regvars, a20vars, cfgvars, sndvars, byte_code_present_mask,
                   codegen_in_recompile, cr0, cr3, cr4, CPL, cpl_override,
                   touched, focus, rcalls, wcalls>>

\* writemembl, writememwl, writememll, writememql at a logical address, of
\* the value with bytes 17, 18, ...
DevWrite ==
    /\ nops < MaxDevOps
    /\ focus = "dev"
    /\ \E addr \in DevAddrs, w \in EdgeWidths :
        \E sg \in DevSegsOf(addr) :
          \E m \in { WriteMem([Mem EXCEPT !.seg = sg], addr,
                              [i \in 1 .. w |-> 16 + i]) } :
            /\ SetMem(m)
            /\ abrt' = m.abrt
            /\ cr2' = m.cr2
            /\ abrt_error' = m.abrt_error
            /\ last' = [op |-> "write", addr |-> addr, w |-> w,
                        val |-> [i \in 1 .. w |-> 16 + i],
                        seg |-> sg, phys |-> EdgePhys(addr, TRUE),
                        reads |-> m.dev_reads, writes |-> m.dev_writes,
                        pre |-> EdgePre]
    /\ nops' = nops + 1
    /\ UNCHANGED <<cgvars, regvars, a20vars, cfgvars, sndvars, byte_code_present_mask,
                   codegen_in_recompile, cr0, cr3, cr4, CPL, cpl_override,
                   touched, focus, rcalls, wcalls>>

DevNext ==
    \/ DevRead
    \/ DevWrite

SpecDev == DevInit /\ [][DevNext]_vars

-----------------------------------------------------------------------------
(* The logical entry points while the CPU core changes the privilege level *)
(* and CR0.WP: accesses to a data page whose table entry lacks the user or *)
(* the write bit, with the translation caches filled at the time the walk  *)
(* allowed the access.                                                      *)

\* operations in a run after the construction
MaxPrivOps == 3

\* the flags of the table entry of the data page: present, with or without
\* the write bit and the user bit
PrivFlags == {1, 3, 5, 7}

\* the image of SpecAcc with the flags fl in the table entry of page 2
PrivImage(fl) == [AccImage EXCEPT ![4104] = fl]

PrivInit ==
    /\ AT = TRUE
    /\ dma = DmaReset
    /\ cpu_16bitbus = FALSE
    /\ in_smm = FALSE
    /\ new_dynarec \in BOOLEAN
    /\ recomp_page = EMPTY
    /\ InitMachine([mem_reset(MachineZero(TlbEmpty)) EXCEPT
                       !.pblock = [f \in AccFrames |-> f = 3]])
    /\ pages = [f \in AccFrames |->
                  [PageZero EXCEPT
                     !.dirty_mask = IF f = 2 THEN {} ELSE {0},
                     !.code_present_mask = IF f = 3 THEN {0} ELSE {}]]
    /\ byte_code_present_mask = IF new_dynarec THEN { 12297 } ELSE {}
    /\ \E fl \in PrivFlags : ram = PrivImage(fl)
    /\ byte_dirty_mask =
          IF new_dynarec THEN { a \in AccCells : AccImage[a] # 0 } ELSE {}
    /\ purgable_page_list_head = 0
    /\ purgeable_page_count = 0
    /\ codegen_in_recompile = FALSE
    /\ cr0 = {"PG"}
    /\ cr3 = 0
    /\ cr4 = {}
    /\ CPL = 0
    /\ cpl_override = FALSE
    /\ abrt = FALSE
    /\ cr2 = 0
    /\ abrt_error = 0
    /\ mem_logical_addr = 0
    /\ touched = {}
    /\ focus = "priv"
    /\ last = [op |-> "init", addr |-> 0, w |-> 0, val |-> << >>,
               refused |-> FALSE, cached |-> FALSE, pre |-> << >>]
    /\ rcalls = << >>
    /\ wcalls = << >>
    /\ nops = 0

\* readmembl, readmemwl, readmemll at an address of the data page;
\* last.refused: the walk of the address refuses the access in the state
\* the access is made in
PrivRead ==
    /\ nops < MaxPrivOps
    /\ focus = "priv"
    /\ \E off \in AccOffs, w \in AccWidths :
        LET addr == 4096 * 2 + off
        IN  \E r \in { ReadMem(Mem, addr, w) } :
            /\ SetMem(r.m)
            /\ abrt' = r.m.abrt
            /\ cr2' = r.m.cr2
            /\ abrt_error' = r.m.abrt_error
            /\ last' = [op |-> "read", addr |-> addr, w |-> w, val |-> r.val,
                        refused |-> EdgePhys(addr, FALSE) = FAULT,
                        cached |-> EdgeCached(addr), pre |-> EdgePre]
    /\ nops' = nops + 1
    /\ UNCHANGED <<cgvars, regvars, a20vars, cfgvars, sndvars, byte_code_present_mask,
                   codegen_in_recompile, cr0, cr3, cr4, CPL, cpl_override,
                   touched, focus, rcalls, wcalls>>

\* writemembl, writememwl, writememll at an address of the data page
PrivWrite ==
    /\ nops < MaxPrivOps
    /\ focus = "priv"
    /\ \E off \in AccOffs, w \in AccWidths :
        LET addr == 4096 * 2 + off
        IN  \E m \in { WriteMem(Mem, addr, Val(48, w)) } :
            /\ SetMem(m)
            /\ abrt' = m.abrt
            /\ cr2' = m.cr2
            /\ abrt_error' = m.abrt_error
            /\ last' = [op |-> "write", addr |-> addr, w |-> w,
                        val |-> Val(48, w),
                        refused |-> EdgePhys(addr, TRUE) = FAULT,
                        cached |-> EdgeCached(addr), pre |-> EdgePre]
    /\ nops' = nops + 1
    /\ UNCHANGED <<cgvars, regvars, a20vars, cfgvars, sndvars, byte_code_present_mask,
                   codegen_in_recompile, cr0, cr3, cr4, CPL, cpl_override,
                   touched, focus, rcalls, wcalls>>

\* the CPU core changes the privilege level and calls nothing of mem.c
PrivSetCPL ==
    /\ nops < MaxPrivOps
    /\ focus = "priv"
    /\ \E c \in {0, 3} \ {CPL} :
        /\ CPL' = c
        /\ last' = [op |-> "cpl", addr |-> 0, w |-> 0, val |-> << >>,
                    refused |-> FALSE, cached |-> FALSE, pre |-> EdgePre]
    /\ nops' = nops + 1
    /\ UNCHANGED <<tlbvars, cgvars, regvars, a20vars, cfgvars, sndvars, memvars,
                   codegen_in_recompile, cr0, cr3, cr4, cpl_override, abrt, cr2,
                   abrt_error, mem_logical_addr, touched, focus, rcalls, wcalls>>

\* the CPU core sets or clears CR0.WP and calls nothing of mem.c
PrivSetWP ==
    /\ nops < MaxPrivOps
    /\ focus = "priv"
    /\ cr0' = IF "WP" \in cr0 THEN cr0 \ {"WP"} ELSE cr0 \cup {"WP"}
    /\ last' = [op |-> "wp", addr |-> 0, w |-> 0, val |-> << >>,
                refused |-> FALSE, cached |-> FALSE, pre |-> EdgePre]
    /\ nops' = nops + 1
    /\ UNCHANGED <<tlbvars, cgvars, regvars, a20vars, cfgvars, sndvars, memvars,
                   codegen_in_recompile, cr3, cr4, CPL, cpl_override, abrt, cr2,
                   abrt_error, mem_logical_addr, touched, focus, rcalls, wcalls>>

\* flushmmucache
PrivFlush ==
    /\ nops < MaxPrivOps
    /\ focus = "priv"
    /\ SetMem([Mem EXCEPT !.tlb = flushmmucache(@)])
    /\ last' = [op |-> "flush", addr |-> 0, w |-> 0, val |-> << >>,
                refused |-> FALSE, cached |-> FALSE, pre |-> EdgePre]
    /\ nops' = nops + 1
    /\ UNCHANGED <<cgvars, regvars, a20vars, cfgvars, sndvars, byte_code_present_mask,
                   codegen_in_recompile, cpuvars, touched, focus, rcalls, wcalls>>

PrivNext ==
    \/ PrivRead
    \/ PrivWrite
    \/ PrivSetCPL
    \/ PrivSetWP
    \/ PrivFlush

SpecPriv == PrivInit /\ [][PrivNext]_vars

-----------------------------------------------------------------------------
(* The page write handlers on their own: one call of mem_write_ramb_page,  *)
(* mem_write_ramw_page or mem_write_raml_page at offsets next to the end   *)
(* of a sub-block, of a dirty mask and of the page                         *)

MaxDirtyOps == 2
DirtyPages == 0 .. 1
\* page offsets written: the start of the page, the last bytes of a 16-byte
\* sub-block, of a 64-byte sub-block and of the first 1 KiB, and the last
\* doubleword of the page
DirtyOffs == {0, 15, 61, 63, 1021, 1023, 4092}
DirtyCells == { 4096 * p + o + i : p \in DirtyPages, o \in DirtyOffs, i \in 0 .. 3 }

DirtyInit ==
    /\ AT = TRUE
    /\ dma = DmaReset
    /\ cpu_16bitbus = FALSE
    /\ in_smm = FALSE
    /\ new_dynarec \in BOOLEAN
    /\ recomp_page = EMPTY
    /\ InitMachine(mem_reset(MachineZero(TlbEmpty)))
    /\ ram = [a \in DirtyCells |-> 0]
    /\ pages = [p \in DirtyPages |-> PageZero]
    /\ byte_dirty_mask = {}
    /\ byte_code_present_mask = {}
    /\ purgable_page_list_head = 0
    /\ purgeable_page_count = 0
    /\ codegen_in_recompile = FALSE
    /\ cr0 = {}
    /\ cr3 = 0
    /\ cr4 = {}
    /\ CPL = 0
    /\ cpl_override = FALSE
    /\ abrt = FALSE
    /\ cr2 = 0
    /\ abrt_error = 0
    /\ mem_logical_addr = 0
    /\ touched = {}
    /\ focus = "dirty"
    /\ last = [op |-> "mem_reset", p |-> 0, o |-> 0, w |-> 1, acts |-> FALSE]
    /\ rcalls = << >>
    /\ wcalls = << >>
    /\ nops = 0

\* p->write_b, p->write_w or p->write_l on page p at offset o; last.acts:
\* the value written differs from the value stored
DirtyHandlerCall ==
    /\ nops < MaxDirtyOps
    /\ focus = "dirty"
    /\ \E p \in DirtyPages, o \in DirtyOffs, w \in AccWidths, b \in AccVals :
        /\ nops' = nops + 1
        /\ SetMem(PageWrite(Mem, 4096 * p + o, Val(b, w), p))
        /\ last' = [op |-> "write", p |-> p, o |-> o, w |-> w,
                    acts |-> Val(b, w) # RamRead(ram, 4096 * p + o, w)]
        /\ UNCHANGED <<cgvars, regvars, a20vars, cfgvars, sndvars, cpuvars, touched,
                       focus, rcalls, wcalls, byte_code_present_mask,
                       codegen_in_recompile>>

DirtyNext ==
    \/ DirtyHandlerCall

SpecDirty == DirtyInit /\ [][DirtyNext]_vars

-----------------------------------------------------------------------------
(* The physical accessors on chunks whose owners the chipset takes away:   *)
(* DMA reads and writes conventional RAM while the chipset changes the     *)
(* read and write policy of the chunk and the exec pointer of its mapping. *)

\* MEM_READ_x | MEM_WRITE_y arguments of mem_set_mem_state: the reset state,
\* write-protected RAM, reads sent to the bus with execution kept internal,
\* and the chunk disabled
OwnStates ==
    { [r |-> "INTERNAL", w |-> "INTERNAL"], [r |-> "INTERNAL", w |-> "EXTERNAL"],
      [r |-> "EXTERNAL_EX", w |-> "INTERNAL"], [r |-> "DISABLED", w |-> "DISABLED"] }

\* mem_set_mem_state on conventional RAM
OwnSetState ==
    /\ nops < MaxAccOps
    /\ focus = "access"
    /\ \E st \in OwnStates :
        /\ [r |-> mem_state[0].r, w |-> mem_state[0].w] # st
        /\ SetMachine(mem_set_mem_state(Machine, 0, mapping["ram_low"].size, st))
    /\ touched' = {}
    /\ last' = [op |-> "set_state", addr |-> 0, w |-> 0, val |-> << >>,
                changed |-> {}, served |-> FALSE]
    /\ nops' = nops + 1
    /\ UNCHANGED <<recomp_page, in_smm, cfgvars, sndvars, memvars, codegen_in_recompile,
                   cpuvars, mem_logical_addr, focus, rcalls, wcalls>>

OwnNext ==
    \/ PhysRead
    \/ PhysWrite
    \/ PhysSetExec
    \/ OwnSetState

SpecOwn == AccInit /\ [][OwnNext]_vars

-----------------------------------------------------------------------------
(* The bulk physical copies mem_read_phys and mem_write_phys of the        *)
(* source, which take a host buffer and a transfer size; the operators     *)
(* mem_read_phys and mem_write_phys above are the accessors they call.     *)

\* mem_read_phys(dest, addr, transfer_size): the buffer after the call; the
\* last branch tests transfer_size == 4 a second time
mem_read_phys_bulk(m, dest, addr, transfer_size, inb) ==
    IF transfer_size = 4
    THEN Bind(mem_read_phys(m, addr, 4, inb), LAMBDA r : [m |-> r.m, dest |-> r.val])
    ELSE IF transfer_size = 2
    THEN Bind(mem_read_phys(m, addr, 2, inb), LAMBDA r : [m |-> r.m, dest |-> r.val])
    ELSE IF transfer_size = 4
    THEN Bind(mem_read_phys(m, addr, 1, inb), LAMBDA r : [m |-> r.m, dest |-> r.val])
    ELSE [m |-> m, dest |-> dest]

\* mem_write_phys(src, addr, transfer_size)
mem_write_phys_bulk(m, src, addr, transfer_size, inb) ==
    IF transfer_size = 4 THEN mem_write_phys(m, addr, SubSeq(src, 1, 4), inb)
    ELSE IF transfer_size = 2 THEN mem_write_phys(m, addr, SubSeq(src, 1, 2), inb)
    ELSE mem_write_phys(m, addr, SubSeq(src, 1, 1), inb)

BulkSizes == {1, 2, 4}
\* the low byte of the buffers' contents; the other bytes are 0
BulkVals == {48, 49}

\* mem_read_phys into a buffer that holds Val(d, n) before the call
BulkRead ==
    /\ nops < MaxAccOps
    /\ focus = "access"
    /\ \E addr \in PhysAddrs, n \in BulkSizes, d \in BulkVals, inb \in BOOLEAN :
        \E r \in { mem_read_phys_bulk(Mem, Val(d, n), addr, n, inb) } :
            /\ SetMem(r.m)
            /\ last' = [op |-> "bulk_read", addr |-> addr, w |-> n, val |-> r.dest,
                        changed |-> {}, served |-> FALSE]
    /\ nops' = nops + 1
    /\ UNCHANGED <<cgvars, regvars, a20vars, cfgvars, sndvars, byte_code_present_mask,
                   codegen_in_recompile, cpuvars, touched, focus, rcalls, wcalls>>

\* mem_write_phys from a buffer that holds Val(d, n)
BulkWrite ==
    /\ nops < MaxAccOps
    /\ focus = "access"
    /\ \E addr \in PhysAddrs, n \in BulkSizes, d \in BulkVals, inb \in BOOLEAN :
        \E m \in { mem_write_phys_bulk(Mem, Val(d, n), addr, n, inb) } :
            /\ SetMem(m)
            /\ last' = [op |-> "bulk_write", addr |-> addr, w |-> n,
                        val |-> Val(d, n),
                        changed |-> { a \in AccCells : m.ram[a] # ram[a] },
                        served |-> FALSE]
    /\ nops' = nops + 1
    /\ UNCHANGED <<cgvars, regvars, a20vars, cfgvars, sndvars, byte_code_present_mask,
                   codegen_in_recompile, cpuvars, touched, focus, rcalls, wcalls>>

BulkNext ==
    \/ BulkRead
    \/ BulkWrite

SpecBulk == AccInit /\ [][BulkNext]_vars

-----------------------------------------------------------------------------
(* The loop of mem_invalidate_range with 32-bit addresses.  An address is   *)
(* kept as a count of 16-byte units, 0 .. Units32 - 1, with the byte inside *)
(* the unit beside it where it matters: both builds round to 64 bytes and   *)
(* advance by 64 or by 16 bytes, so the loop address is always a whole      *)
(* number of units, and 2^32 itself is beyond the integers of the model.    *)

MaxInvOps == 1
\* 2^32 / 16
Units32 == 268435456
\* 1 << PAGE_MASK_SHIFT, in units
InvStep == IF new_dynarec THEN 4 ELSE 1

\* start_addr &= ~PAGE_MASK_MASK
InvRoundDown(u) == u - (u % 4)
\* end_addr = (end_addr + PAGE_MASK_MASK) & ~PAGE_MASK_MASK, of the address
\* 16 * u + b, in 32 bits
InvRoundUp(u, b) ==
    LET t == (u + 3 + (IF b > 0 THEN 1 ELSE 0)) % Units32
    IN  t - (t % 4)

\* start_addr += (1 << PAGE_MASK_SHIFT), in 32 bits
InvAdvance(u) == (u + InvStep) % Units32

\* start_addr >> 12
InvPageOf(u) == u \div 256

\* the body of the loop at the address of unit u, inside the page table
InvalidateBody(m, u) ==
    LET a == 16 * u
    IN  EvictIf([m EXCEPT !.pages[PageOf(a)].dirty_mask = @ \cup {SubBlockOf(a)}],
                PageOf(a),
                new_dynarec /\ SubBlockOf(a) \in m.pages[PageOf(a)].code_present_mask)

\* the arguments of the calls: ranges at the start of memory and ranges that
\* start or end in the last 128 bytes of the address space
InvStarts == {0, 4, Units32 - 8}
InvEnds == { <<3, 0>>, <<Units32 - 8, 0>>, <<Units32 - 8, 1>>, <<Units32 - 4, 0>>,
             <<Units32 - 4, 1>>, <<Units32 - 1, 15>> }

InvInit ==
    /\ AT = TRUE
    /\ dma = DmaReset
    /\ cpu_16bitbus = FALSE
    /\ in_smm = FALSE
    /\ new_dynarec \in BOOLEAN
    /\ recomp_page = EMPTY
    /\ InitMachine(mem_reset(MachineZero(TlbEmpty)))
    /\ ram = [a \in DirtyCells |-> 0]
    /\ pages = [p \in DirtyPages |->
                  [PageZero EXCEPT !.code_present_mask = IF p = 1 THEN {0} ELSE {}]]
    /\ byte_dirty_mask = {}
    /\ byte_code_present_mask = {}
    /\ purgable_page_list_head = 0
    /\ purgeable_page_count = 0
    /\ codegen_in_recompile = FALSE
    /\ cr0 = {}
    /\ cr3 = 0
    /\ cr4 = {}
    /\ CPL = 0
    /\ cpl_override = FALSE
    /\ abrt = FALSE
    /\ cr2 = 0
    /\ abrt_error = 0
    /\ mem_logical_addr = 0
    /\ touched = {}
    /\ focus = "invalidate"
    /\ last = [op |-> "mem_reset", start |-> 0, end |-> 0]
    /\ rcalls = << >>
    /\ wcalls = << >>
    /\ nops = 0

\* what a step of the loop leaves alone
InvFrame ==
    UNCHANGED <<cgvars, regvars, a20vars, cfgvars, sndvars, cpuvars, touched, focus,
                rcalls, wcalls, byte_code_present_mask, codegen_in_recompile,
                mem_logical_addr, tlbvars>>

\* the call: both addresses are rounded and the loop is entered
InvCall ==
    /\ nops < MaxInvOps
    /\ focus = "invalidate"
    /\ last.op # "loop"
    /\ \E s \in InvStarts, e \in InvEnds :
        /\ s <= e[1]
        /\ last' = [op |-> "loop", start |-> InvRoundDown(s),
                    end |-> InvRoundUp(e[1], e[2])]
    /\ nops' = nops + 1
    /\ UNCHANGED memvars
    /\ InvFrame

\* one iteration at an address inside the page table
InvIterate ==
    /\ last.op = "loop"
    /\ last.start <= last.end
    /\ InvPageOf(last.start) \in DOMAIN pages
    /\ SetMem(InvalidateBody(Mem, last.start))
    /\ last' = [last EXCEPT !.start = InvAdvance(@)]
    /\ UNCHANGED <<cgvars, regvars, a20vars, cfgvars, sndvars, cpuvars, touched, focus,
                   rcalls, wcalls, byte_code_present_mask, codegen_in_recompile,
                   nops>>

\* the run of iterations at addresses beyond the page table, whose body does
\* nothing: it lasts until the address exceeds end_addr or wraps to 0
InvSkipRun ==
    /\ last.op = "loop"
    /\ last.start <= last.end
    /\ InvPageOf(last.start) \notin DOMAIN pages
    /\ last' = [last EXCEPT !.start = IF last.end + InvStep < Units32
                                       THEN last.end + InvStep ELSE 0]
    /\ UNCHANGED <<memvars, nops>>
    /\ InvFrame

\* start_addr <= end_addr fails and the function returns
InvExit ==
    /\ last.op = "loop"
    /\ last.start > last.end
    /\ last' = [last EXCEPT !.op = "done"]
    /\ UNCHANGED <<memvars, nops>>
    /\ InvFrame

InvNext ==
    \/ InvCall
    \/ InvIterate
    \/ InvSkipRun
    \/ InvExit

\* the function runs to its end once called: its steps are not postponed
\* for ever
SpecInv == InvInit /\ [][InvNext]_vars
               /\ WF_vars(InvIterate \/ InvSkipRun \/ InvExit)

-----------------------------------------------------------------------------
(* The FIFO of a CMI8330 DMA channel (snd_cmi8330.c).  fifo_pos and         *)
(* fifo_end count the bytes taken out and put in since the reset; a byte    *)
(* of the stream is named by its count.  The memory core is idle in these   *)
(* runs.  Of cmi8330_dma_process only the part that touches the FIFO is      *)
(* followed: the timer, the reload of sample_ptr and of the frame counters   *)
(* and the interrupt flag neither read nor write fifo, fifo_pos or fifo_end. *)

\* fifo_end is followed up to this value
MaxFifoEnd == 24

\* n & (CMI_FIFO_SZ - 1)
FifoIdx(n) == n % CMI_FIFO_SZ
\* (int)(d->fifo_end - d->fifo_pos)
FifoLevel(d) == d.fifo_end - d.fifo_pos

\* the byte the guest supplies as byte n of the stream, from guest memory
\* or from the Sound Blaster DSP: never 0 and different for bytes less than
\* 250 apart
Tag(n) == (n % 250) + 1

\* the room test for one byte, whatever the number of bytes copied
FifoRoomForOne(d, n) == FifoLevel(d) + 1 <= CMI_FIFO_SZ


\* ((int)(fifo_end - fifo_pos) + n) <= (int)sizeof(fifo)
FifoRoom(d, n) == FifoLevel(d) + n <= CMI_FIFO_SZ

\* what a FIFO operation hands back: the channel, the bytes taken out of the
\* stream, the value returned and the indices of fifo[] it used
FifoResult(d, out, val, idx) == [d |-> d, out |-> out, val |-> val, idx |-> idx]

cmi8330_sb_dma_readb(d) ==
    IF d.fifo_pos < d.fifo_end
    THEN LET v == d.fifo[FifoIdx(d.fifo_pos)]
         IN  FifoResult([d EXCEPT !.fifo_pos = @ + 1], << v >>, << v >>,
                        { FifoIdx(d.fifo_pos) })
    ELSE FifoResult(d, << >>, << 255 >>, {})

cmi8330_sb_dma_writeb(d, v) ==
    IF FifoRoom(d, 1)
    THEN FifoResult([d EXCEPT !.fifo[FifoIdx(d.fifo_end)] = v, !.fifo_end = @ + 1],
                    << >>, << >>, { FifoIdx(d.fifo_end) })
    ELSE FifoResult(d, << >>, << >>, {})

\* two FIFO operations one after the other
FifoThen(r1, r2) ==
    FifoResult(r2.d, r1.out \o r2.out, r1.val \o r2.val, r1.idx \cup r2.idx)

cmi8330_sb_dma_readw(d) ==
    Bind(cmi8330_sb_dma_readb(d), LAMBDA lo :
        FifoThen(lo, cmi8330_sb_dma_readb(lo.d)))

cmi8330_sb_dma_writew(d, w) ==
    Bind(cmi8330_sb_dma_writeb(d, w[1]), LAMBDA lo :
        FifoThen(lo, cmi8330_sb_dma_writeb(lo.d, w[2])))

\* memcpy(&v, &dma->fifo[idx], 4) and memcpy(&dma->fifo[idx], &v, 4): the
\* four bytes from idx on, past the end of the array when idx > 12
CopyIndices(idx) == idx .. idx + 3

\* the FIFO part of cmi8330_dma_process; v is the doubleword read from
\* guest memory
cmi8330_dma_process(d, enabled, writeback, v) ==
    IF ~enabled THEN FifoResult(d, << >>, << >>, {})
    ELSE IF writeback
    THEN IF FifoLevel(d) >= 4
         THEN LET idx == FifoIdx(d.fifo_pos)
                  w == [j \in 1 .. 4 |-> d.fifo[idx + j - 1]]
              IN  FifoResult([d EXCEPT !.fifo_pos = @ + 4], w, w, CopyIndices(idx))
         ELSE FifoResult(d, << >>, << >>, {})
    ELSE IF FifoRoom(d, 4)
         THEN LET idx == FifoIdx(d.fifo_end)
              IN  FifoResult([d EXCEPT
                                 !.fifo = [i \in DOMAIN @ |->
                                             IF i \in CopyIndices(idx)
                                             THEN v[i - idx + 1] ELSE @[i]],
                                 !.fifo_end = @ + 4],
                             << >>, << >>, CopyIndices(idx))
         ELSE FifoResult(d, << >>, << >>, {})

\* n bytes taken one by one at fifo_pos++ & (CMI_FIFO_SZ - 1)
RECURSIVE FifoTake(_, _)
FifoTake(d, n) ==
    IF n = 0 THEN FifoResult(d, << >>, << >>, {})
    ELSE LET v == d.fifo[FifoIdx(d.fifo_pos)]
         IN  FifoThen(FifoResult([d EXCEPT !.fifo_pos = @ + 1], << v >>, << v >>,
                                 { FifoIdx(d.fifo_pos) }),
                      FifoTake([d EXCEPT !.fifo_pos = @ + 1], n - 1))

\* one sample of cmi8330_poll in format fmt: 1, 2 or 4 bytes, taken when
\* the FIFO holds as many
PollSample(d, fmt) ==
    LET n == IF fmt = 0 THEN 1 ELSE IF fmt = 1 THEN 2 ELSE 4
    IN  IF FifoLevel(d) >= n THEN FifoTake(d, n)
        ELSE FifoResult(d, << >>, << >>, {})

\* the loop of cmi8330_poll over count samples
RECURSIVE cmi8330_poll(_, _, _)
cmi8330_poll(d, fmt, count) ==
    IF count = 0 THEN FifoResult(d, << >>, << >>, {})
    ELSE Bind(PollSample(d, fmt), LAMBDA r :
            FifoThen(r, cmi8330_poll(r.d, fmt, count - 1)))

\* the sample formats of io_regs[0x08] and the samples one poll decodes
SndFormats == 0 .. 3
PollCounts == {1, 2}

SndInit ==
    /\ AT = TRUE
    /\ dma = DmaReset
    /\ cpu_16bitbus = FALSE
    /\ new_dynarec = TRUE
    /\ PhysIdle
    /\ in_smm = FALSE
    /\ InitMachine(mem_reset(MachineZero(TlbEmpty)))
    /\ recomp_page = EMPTY
    /\ focus = "cmi8330"
    /\ last = [op |-> "cmi8330_init", pre |-> DmaReset, out |-> << >>,
               val |-> << >>, idx |-> {}]
    /\ rcalls = << >>
    /\ wcalls = << >>
    /\ nops = 0

\* a FIFO operation with result r
SndStep(op, r) ==
    /\ dma' = r.d
    /\ last' = [op |-> op, pre |-> dma, out |-> r.out, val |-> r.val, idx |-> r.idx]
    /\ UNCHANGED <<tlbvars, cgvars, regvars, a20vars, cfgvars, physvars,
                   focus, rcalls, wcalls, nops>>

\* the DMA timer fires; the channel may be disabled (io_regs[0x02]) and
\* moves data to or from guest memory (io_regs[0x00])
SndDmaTick ==
    /\ focus = "cmi8330"
    /\ dma.fifo_end + 4 <= MaxFifoEnd
    /\ \E enabled \in BOOLEAN, writeback \in BOOLEAN :
        SndStep("cmi8330_dma_process",
                cmi8330_dma_process(dma, enabled, writeback,
                                    [j \in 1 .. 4 |-> Tag(dma.fifo_end + j - 1)]))

SndPoll ==
    /\ focus = "cmi8330"
    /\ \E fmt \in SndFormats, count \in PollCounts :
        SndStep("cmi8330_poll", cmi8330_poll(dma, fmt, count))

SndSbReadB ==
    /\ focus = "cmi8330"
    /\ SndStep("cmi8330_sb_dma_readb", cmi8330_sb_dma_readb(dma))

SndSbReadW ==
    /\ focus = "cmi8330"
    /\ SndStep("cmi8330_sb_dma_readw", cmi8330_sb_dma_readw(dma))

SndSbWriteB ==
    /\ focus = "cmi8330"
    /\ dma.fifo_end + 1 <= MaxFifoEnd
    /\ SndStep("cmi8330_sb_dma_writeb", cmi8330_sb_dma_writeb(dma, Tag(dma.fifo_end)))

\* the second byte of the word is byte fifo_end + 1 of the stream when the
\* first is taken; when the first is refused both are
SndSbWriteW ==
    /\ focus = "cmi8330"
    /\ dma.fifo_end + 2 <= MaxFifoEnd
    /\ SndStep("cmi8330_sb_dma_writew",
               cmi8330_sb_dma_writew(dma, << Tag(dma.fifo_end), Tag(dma.fifo_end + 1) >>))

SndNext ==
    \/ SndDmaTick
    \/ SndPoll
    \/ SndSbReadB
    \/ SndSbReadW
    \/ SndSbWriteB
    \/ SndSbWriteW

SpecSnd == SndInit /\ [][SndNext]_vars

-----------------------------------------------------------------------------
(* Claims about the translation caches *)

\* widths of the logical entry points, and offsets within a page that give
\* aligned and misaligned accesses that stay inside the page
Widths == {1, 2, 4, 8}
InPageOffsets == {0, 1}

\* C6: no virtual page occupies more than one slot of the read ring or more
\* than one slot of the write ring.
C6_EachPageInOneSlot ==
    \A c1, c2 \in RingSlots :
        c1 # c2 =>
            /\ (readlookup[c1] = EMPTY \/ readlookup[c1] # readlookup[c2])
            /\ (writelookup[c1] = EMPTY \/ writelookup[c1] # writelookup[c2])

\* C7: after cachesize + 1 insertions of distinct virtual pages into an empty
\* cache, the first page inserted is no longer cached and the other
\* cachesize pages are, in the read cache and in the write cache.
C7_RingReplacement ==
    /\ (rcalls # Overflow /\ Len(rcalls) = cachesize + 1) =>
          /\ readlookup2[rcalls[1]] = EMPTY
          /\ \A c \in RingSlots : readlookup[c] # rcalls[1]
          /\ \A i \in 2 .. (cachesize + 1) :
                /\ readlookup2[rcalls[i]] # EMPTY
                /\ \E c \in RingSlots : readlookup[c] = rcalls[i]
    /\ (wcalls # Overflow /\ Len(wcalls) = cachesize + 1) =>
          /\ writelookup2[wcalls[1]] = EMPTY
          /\ page_lookup[wcalls[1]] = NULLPAGE
          /\ \A c \in RingSlots : writelookup[c] # wcalls[1]
          /\ \A i \in 2 .. (cachesize + 1) :
                /\ (writelookup2[wcalls[i]] # EMPTY \/ page_lookup[wcalls[i]] # NULLPAGE)
                /\ \E c \in RingSlots : writelookup[c] = wcalls[i]

\* cachesize + 1 distinct pages have been inserted into the write cache, one
\* of them recorded through its page entry
C7_Witness ==
    /\ wcalls # Overflow
    /\ Len(wcalls) = cachesize + 1
    /\ \E i \in 2 .. (cachesize + 1) : page_lookup[wcalls[i]] # NULLPAGE

\* C8: once addwritelookup has recorded the page entry of a page with a code
\* block in page_lookup, every write to that virtual page, of every width,
\* aligned or not, goes through the page write handler.
C8_CodePageWritesUseHandler ==
    \A v \in DOMAIN page_lookup :
        page_lookup[v] # NULLPAGE =>
            \A w \in Widths, o \in InPageOffsets :
                WriteRoute(TLB, v * 4096 + o, w) = "page"

-----------------------------------------------------------------------------
(* Claims about the region registry *)

IsLinked(m) == \E i \in 1 .. Len(Linked(Machine)) : Linked(Machine)[i] = m
\* position in the registry, 0 when not linked
Position(m) ==
    IF IsLinked(m)
    THEN CHOOSE i \in 1 .. Len(Linked(Machine)) : Linked(Machine)[i] = m
    ELSE 0
Covers(m, c) == mapping[m].base <= c /\ c < mapping[m].base + mapping[m].size
\* m offers the accessor and the policy of chunk c permits m
OffersRead(m, c) ==
    mapping[m].rd /\ mem_mapping_read_allowed(mapping[m].flags, mem_state[c], FALSE)
OffersWrite(m, c) ==
    mapping[m].wr /\ mem_mapping_write_allowed(mapping[m].flags, mem_state[c])
Candidate(m, c) == IsLinked(m) /\ mapping[m].enable /\ Covers(m, c)
\* the last-registered of a set of linked mappings, none when it is empty
LastOf(ms) ==
    IF ms = {} THEN NOMAP
    ELSE CHOOSE m \in ms : \A n \in ms : Position(n) <= Position(m)
ReadOwner(c) == LastOf({m \in Maps : Candidate(m, c) /\ OffersRead(m, c)})
WriteOwner(c) == LastOf({m \in Maps : Candidate(m, c) /\ OffersWrite(m, c)})

TlbIsEmpty ==
    \A v \in TlbPages :
        readlookup2[v] = EMPTY /\ writelookup2[v] = EMPTY /\ page_lookup[v] = NULLPAGE

\* C1: when mem_mapping_add has registered B over a chunk that an earlier
\* registered, enabled mapping A covers, both offering read and write
\* accessors that the chunk's policy permits, B is read and write owner of
\* the chunk; when mem_mapping_disable(B) has run, a chunk of B's range is
\* owned again by the mapping A registered before B that covers it with
\* permitted read and write accessors, no third mapping registered after A
\* covering the chunk.
C1_LastRegistrationWins ==
    \A A \in Maps, c \in RegChunks :
        LET B == last.m
            Eligible(m) == Covers(m, c) /\ OffersRead(m, c) /\ OffersWrite(m, c)
        IN  /\ ( /\ last.op = "mem_mapping_add"
                 /\ A # B /\ Candidate(A, c) /\ Eligible(A)
                 /\ Candidate(B, c) /\ Eligible(B) )
               => read_mapping[c] = B /\ write_mapping[c] = B
            /\ ( /\ last.op = "mem_mapping_disable"
                 /\ A # B /\ Candidate(A, c) /\ Eligible(A)
                 /\ IsLinked(B) /\ Position(A) < Position(B) /\ Eligible(B)
                 /\ \A X \in Maps \ {A, B} :
                        Candidate(X, c) => Position(X) < Position(A) )
               => read_mapping[c] = A /\ write_mapping[c] = A

\* B, registered after A over a common chunk, has just been disabled and
\* the chunk is A's
C1_Witness ==
    /\ last.op = "mem_mapping_disable"
    /\ \E A \in Maps \ {last.m}, c \in RegChunks :
        /\ Candidate(A, c) /\ OffersRead(A, c) /\ OffersWrite(A, c)
        /\ IsLinked(last.m) /\ Position(A) < Position(last.m)
        /\ Covers(last.m, c) /\ OffersRead(last.m, c) /\ OffersWrite(last.m, c)
        /\ read_mapping[c] = A /\ write_mapping[c] = A

\* C2: the chunk tables equal a recomputation from scratch: the read (write)
\* owner of every chunk is the last-registered linked, enabled mapping that
\* covers it with a read (write) accessor the chunk's policy permits, and
\* none when there is no such mapping.
C2_TablesMatchRecomputation ==
    \A c \in RegChunks :
        read_mapping[c] = ReadOwner(c) /\ write_mapping[c] = WriteOwner(c)

\* C4: after a handler that called mem_mapping_recalc, whatever the sizes it
\* passed, no translation is cached.
C4_EveryRecalcEmptiesCaches == last.sizes # {} => TlbIsEmpty

\* C4 amended: after a handler that called mem_mapping_recalc with a size
\* other than 0, no translation is cached.
C4_RecalcOfRangeEmptiesCaches ==
    (\E size \in last.sizes : size # 0) => TlbIsEmpty

\* a page was cached by the first operation of the run and the second
\* recalculated a range that is not empty
C4_Witness ==
    /\ nops = 2
    /\ readlnext + writelnext = 1
    /\ \E size \in last.sizes : size # 0
    /\ TlbIsEmpty

-----------------------------------------------------------------------------
(* Claims about the A20 gate *)

\* C5: when mem_a20_recalc has run with mem_a20_key | mem_a20_alt different
\* from mem_a20_state, the RAM mask has changed and no translation is
\* cached.
C5_RecalcChangesMaskAndFlushes ==
    (last.op = "mem_a20_recalc" /\ last.new # last.state)
        => (rammask # last.mask /\ TlbIsEmpty)

\* C5 amended: when mem_a20_recalc has run on an AT-class machine with
\* mem_a20_key | mem_a20_alt zero and mem_a20_state nonzero, or the other
\* way round, no translation is cached and the RAM mask has address bit 20
\* exactly when mem_a20_key | mem_a20_alt is nonzero; on any other machine
\* mem_a20_recalc leaves no translation cached and the mask at 0xfffff.
C5_ToggleSetsMaskAndFlushes ==
    last.op = "mem_a20_recalc" =>
        /\ (AT /\ ((last.new # 0) # (last.state # 0)))
              => (TlbIsEmpty /\ ((20 \in rammask) <=> (last.new # 0)))
        /\ ~AT => (TlbIsEmpty /\ rammask = Mask20)

\* the gate was switched on while a translation was cached
C5_Witness ==
    /\ AT
    /\ last.op = "mem_a20_recalc"
    /\ last.state = 0 /\ last.new # 0
    /\ last.cached
    /\ 20 \notin last.mask /\ 20 \in rammask
    /\ TlbIsEmpty


-----------------------------------------------------------------------------
(* Claims about the logical accesses *)

\* the access state with the translation caches emptied
Flushed(m) == [m EXCEPT !.tlb = flushmmucache(@)]

\* a read served from the read cache returns what the same read returns
\* when it walks the page tables and dispatches on the chunk
ServedAsWalked(v) ==
    \A off \in AccOffs, w \in AccWidths \ {1} :
        CacheServed(4096 * v + off, w) =>
            ReadMem(Mem, 4096 * v + off, w).val
                = ReadMem(Flushed(Mem), 4096 * v + off, w).val

C9_ChangedBytesAreDirty ==
    last.op = "write" =>
        \A a \in last.changed : SubBlockOf(a) \in pages[PageOf(a)].dirty_mask


-----------------------------------------------------------------------------
(* Claims about the page write handlers and the eviction list *)

\* C10 as stated: after a page write handler call that changes a byte in a
\* sub-block whose code-present bit is set, the written page is in the
\* eviction list, for every page of the table and every state of the list.
C10_CodeWritePutsPageOnList ==
    (new_dynarec /\ last.op = "write" /\ last.hit) => last.p \in EvictList

\* C11: a page write handler call whose value equals the value stored at
\* the address, made while codegen_in_recompile is clear, changes nothing:
\* memory, the dirty bits, the byte-level dirty bits, the eviction list,
\* its head and its count stay as they were.
C11_SameValueWriteChangesNothing ==
    [][(last'.op = "write" /\ last'.same /\ nops' # nops /\ ~codegen_in_recompile)
          => UNCHANGED <<ram, pages, byte_dirty_mask, purgable_page_list_head,
                         purgeable_page_count>>]_vars

\* a same-value write to a page that holds a nonzero byte and a sub-block
\* marked as code
C11_Witness ==
    /\ last.op = "write" /\ last.same /\ ~codegen_in_recompile
    /\ pages[last.p].code_present_mask # {}
    /\ \E a \in PageCells : PageOf(a) = last.p /\ ram[a] # 0

-----------------------------------------------------------------------------
(* Claims about the page-table walkers *)

\* the low byte, as it was before the last walk, of the entries that
\* translate the address walked: the PAE directory-pointer entry, the
\* directory entry and the table entry
TopBits == last.pre.ram[cr3]
PdeBits == last.pre.ram[WalkPdeAt]
PteBits == last.pre.ram[WalkPteAt]

\* the access is one of privilege level 3 with no privilege override, and
\* it is a write subject to write protection
NeedsUser == CPL = 3 /\ ~cpl_override
NeedsWrite == last.rw /\ (NeedsUser \/ "WP" \in cr0)

\* the permission bits in e allow the access
Permits(e) == (NeedsUser => HasBit(e, 4)) /\ (NeedsWrite => HasBit(e, 2))

\* the last operation was a faulting-walker call with no abort pending
\* that went through a 4 KiB page of the 2-level format, of the PAE format,
\* and either walker through a 2 MiB page of the PAE format
Walk4K ==
    /\ last.op = "walk" /\ ~last.pre.abrt /\ "PAE" \notin cr4
    /\ HasBit(PdeBits, 1) /\ ~(HasBit(PdeBits, 128) /\ "PSE" \in cr4)
WalkPae4K ==
    /\ last.op = "walk" /\ ~last.pre.abrt /\ "PAE" \in cr4
    /\ HasBit(TopBits, 1) /\ HasBit(PdeBits, 1) /\ ~HasBit(PdeBits, 128)
WalkPaeBig ==
    /\ last.op \in {"walk", "noabrt"} /\ ~last.pre.abrt /\ "PAE" \in cr4
    /\ HasBit(TopBits, 1) /\ HasBit(PdeBits, 1) /\ HasBit(PdeBits, 128)

\* C15: a 2-level walk through a 4 KiB page succeeds exactly when the table
\* entry is present, the user bit is set in both the directory and the
\* table entry if the access is made at privilege level 3 without override,
\* and the write bit is set in both if it is a write subject to write
\* protection; otherwise it faults.
C15_TwoLevelPermissionIsAnd ==
    Walk4K =>
        (last.phys # FAULT <=>
            HasBit(PteBits, 1) /\ Permits(PdeBits) /\ Permits(PteBits))

\* a user write refused by the directory entry alone
C15_Witness ==
    /\ Walk4K /\ NeedsUser /\ last.rw
    /\ PteBits % 8 = 7 /\ PdeBits % 8 = 1
    /\ last.phys = FAULT

\* C16 as stated: a PAE walk through a 4 KiB page succeeds exactly when the
\* table entry is present and the user and write bits the access needs are
\* set in all three traversed entries.
C16_PaePermissionIsAndOfThree ==
    WalkPae4K =>
        (last.phys # FAULT <=>
            HasBit(PteBits, 1) /\ Permits(TopBits) /\ Permits(PdeBits)
            /\ Permits(PteBits))

\* C16 amended: a PAE walk through a 4 KiB page succeeds exactly when the
\* table entry is present and the user and write bits the access needs are
\* set in both the directory entry and the table entry; of the
\* directory-pointer entry only the present bit is looked at.
C16_PaePermissionIsAndOfTwo ==
    WalkPae4K =>
        (last.phys # FAULT <=>
            HasBit(PteBits, 1) /\ Permits(PdeBits) /\ Permits(PteBits))

\* a user write that succeeds through a directory-pointer entry with
\* neither the user nor the write bit
C16_Witness ==
    /\ WalkPae4K /\ NeedsUser /\ last.rw
    /\ TopBits % 8 = 1
    /\ last.phys = 12288 + (last.addr % 4096)

\* C17: a PAE walk through a present directory entry with the large-page
\* bit returns, when it succeeds, the 2 MiB frame of the directory entry
\* plus the low 21 bits of the linear address; it succeeds whenever the
\* directory entry has the user and write bits and is refused whenever the
\* directory entry lacks a bit the access needs, whatever the other
\* entries hold; the faulting walker succeeds exactly when the directory
\* entry permits the access and changes at most the directory entry.
C17_PaeLargePageUsesDirectoryEntry ==
    WalkPaeBig =>
        /\ last.phys # FAULT => last.phys = 2097152 + (last.addr % 2097152)
        /\ (HasBit(PdeBits, 4) /\ HasBit(PdeBits, 2)) => last.phys # FAULT
        /\ ~Permits(PdeBits) => last.phys = FAULT
        /\ last.op = "walk" =>
              /\ last.phys # FAULT <=> Permits(PdeBits)
              /\ \A a \in WalkCells \ {WalkPdeAt} : ram[a] = last.pre.ram[a]

\* a user write through a 2 MiB page under a directory-pointer entry with
\* no permission bits
C17_Witness ==
    /\ WalkPaeBig /\ last.op = "walk" /\ NeedsUser /\ last.rw
    /\ TopBits % 8 = 1
    /\ last.phys = 2097152 + last.addr

\* the faulting walker raised a fault in the last operation, and the entry
\* it stopped at was not present
Raised == last.op = "walk" /\ ~last.pre.abrt /\ last.phys = FAULT
NotPresentFault ==
    \/ "PAE" \in cr4 /\ ~HasBit(TopBits, 1)
    \/ ~HasBit(PdeBits, 1)
    \/ /\ ~(HasBit(PdeBits, 128) /\ cr4 # {})
       /\ ~HasBit(PteBits, 1)

\* C18 as stated: a fault raised by the faulting walker stores CR2 = the
\* linear address and a 3-bit cause with bit 0 set exactly when the fault
\* is due to a clear present bit, bit 1 exactly when the access is a write
\* and bit 2 exactly when CPL is 3.
C18_CauseBit0IsNotPresent ==
    Raised =>
        /\ abrt /\ cr2 = last.addr /\ abrt_error < 8
        /\ HasBit(abrt_error, 1) <=> NotPresentFault
        /\ HasBit(abrt_error, 2) <=> last.rw
        /\ HasBit(abrt_error, 4) <=> CPL = 3

\* C18 amended: a fault raised by the faulting walker stores CR2 = the
\* linear address and a 3-bit cause with bit 0 clear exactly when the
\* fault is due to a clear present bit (set when a present entry refused
\* the access), bit 1 set exactly when the access is a write and bit 2
\* exactly when CPL is 3.
C18_CauseBit0IsProtection ==
    Raised =>
        /\ abrt /\ cr2 = last.addr /\ abrt_error < 8
        /\ HasBit(abrt_error, 1) <=> ~NotPresentFault
        /\ HasBit(abrt_error, 2) <=> last.rw
        /\ HasBit(abrt_error, 4) <=> CPL = 3

\* a user write refused by present entries of the PAE format
C18_Witness ==
    /\ Raised /\ "PAE" \in cr4 /\ ~NotPresentFault
    /\ abrt_error = 7 /\ cr2 = 23228

\* C19 as stated: with no abort pending, mmutranslate_noabrt returns all
\* ones exactly when mmutranslatereal would raise a fault and the same
\* physical address otherwise, and changes neither the paging structures
\* nor CR2, the abort state or the fault cause.
C19_NoabrtAgreesWithReal ==
    (last.op = "noabrt" /\ ~last.pre.abrt) =>
        /\ last.phys = last.real
        /\ WalkPre = last.pre

\* C20: a walk that returns all ones leaves every cell of the paging
\* structures as it was: accessed and dirty bits are written only by a
\* walk that returns a physical address.
C20_FaultingWalkWritesNoEntry ==
    (last.op = "walk" /\ last.phys = FAULT) => ram = last.pre.ram

\* a write refused by the table entry, below a present directory entry
\* whose accessed bit is clear
C20_Witness ==
    /\ Raised /\ last.rw /\ ~NotPresentFault
    /\ ~(HasBit(PdeBits, 128) /\ cr4 # {})
    /\ Permits(PdeBits) /\ ~HasBit(PdeBits, 32)

-----------------------------------------------------------------------------
(* Claims about the logical entry points at the edges *)

\* the last access was made with paging on, no abort pending and no cache
\* entry for a page it touches, and the walk of its first or of its last
\* byte faults
EdgeFaulting ==
    /\ last.op \in {"read", "write"} /\ "PG" \in cr0
    /\ ~last.pre.abrt /\ ~last.cached
    /\ (last.phys1 = FAULT \/ last.phys2 = FAULT)

\* the low bytes of the directory entry and of the table entry that
\* translate byte a, which hold the accessed and dirty bits
EdgeEntryBytes(a) == {PageBase(cr3), 4096 + 4 * PageOf(a)}

\* C12 as stated: with paging on and no cache entry for the pages touched,
\* a read whose walk faults (for a page-crossing read, the walk of either
\* page) returns all ones of its width, and a write whose walk faults
\* changes no byte of memory, in both builds.
C12_FaultingAccessChangesNothing ==
    EdgeFaulting =>
        /\ last.op = "read" => last.val = AllOnes(last.w)
        /\ last.op = "write" => ram = last.pre.ram

\* C12 amended: such a read returns all ones of its width, and such a
\* write stores none of its data: the only bytes it changes are the
\* accessed and dirty bits that the successful walk of the first page of
\* a page-crossing write sets, in the entries of that page, before the
\* walk of the second page faults.
C12_FaultingAccessStoresNothing ==
    EdgeFaulting =>
        /\ last.op = "read" => last.val = AllOnes(last.w)
        /\ last.op = "write" =>
              \A a \in EdgeCells :
                  ram[a] # last.pre.ram[a] =>
                      /\ CrossesPage(last.addr, last.w)
                      /\ last.phys1 # FAULT
                      /\ a \in EdgeEntryBytes(last.addr)
                      /\ ram[a] = BitOr(last.pre.ram[a],
                                        IF a = PageBase(cr3) THEN 32 ELSE 96)

\* a word write across the page boundary in the build with the new
\* recompiler, first page in RAM, second page not present: the dirty bit
\* of the first page's table entry is set and no data byte is stored
C12_Witness ==
    /\ EdgeFaulting /\ new_dynarec
    /\ last.op = "write" /\ last.w = 2 /\ last.addr = 8191
    /\ last.phys1 = 12287 /\ last.phys2 = FAULT
    /\ HasBit(ram[4100], 64) /\ ram[12287] = 0

\* the last access was a word write at page offset 0xfff with no abort
\* pending, whose first byte lies in a chunk owned for writing by a RAM
\* region and whose second byte lies in a chunk with no write owner
EdgeSplitWrite ==
    /\ last.op = "write" /\ last.w = 2 /\ last.addr % 4096 = 4095
    /\ ~last.pre.abrt
    /\ last.phys1 # FAULT /\ last.phys2 # FAULT
    /\ write_mapping[ChunkOf(last.phys1)] \in RamMaps
    /\ write_mapping[ChunkOf(last.phys2)] = NOMAP

\* the fault sink is as it was before the last access
EdgeNoFault ==
    /\ abrt = last.pre.abrt
    /\ cr2 = last.pre.cr2
    /\ abrt_error = last.pre.abrt_error

\* RAM is as it was before the last access but for the cells in keep and
\* the accessed and dirty bits of the entries that translate the access
EdgeRamKept(keep) ==
    \A a \in EdgeCells \ keep :
        IF a \in EdgeEntryBytes(last.addr) \cup EdgeEntryBytes(last.addr + last.w - 1)
        THEN BitOr(ram[a], 96) = BitOr(last.pre.ram[a], 96)
        ELSE ram[a] = last.pre.ram[a]

C14_UnownedAccessIsSilent ==
    (last.op \in {"read", "write"} /\ ~last.pre.abrt
       /\ last.phys1 # FAULT /\ last.phys2 # FAULT) =>
        /\ (last.op = "read" /\ read_mapping[ChunkOf(last.phys1)] = NOMAP
              /\ read_mapping[ChunkOf(last.phys2)] = NOMAP) =>
                  (last.val = AllOnes(last.w) /\ EdgeNoFault)
        /\ (last.op = "write" /\ write_mapping[ChunkOf(last.phys1)] = NOMAP
              /\ write_mapping[ChunkOf(last.phys2)] = NOMAP) =>
                  /\ EdgeRamKept({})
                  /\ TLB = last.pre.tlb
                  /\ pages = last.pre.pages
                  /\ EdgeNoFault

-----------------------------------------------------------------------------
(* Claims about the registry's mappings, ownership and visibility policies *)

\* the mapping registered last, its flags, and the policies of the window
PolLast == IF Linked(Machine) = << >> THEN NOMAP
           ELSE Linked(Machine)[Len(Linked(Machine))]
PolSt == mem_state[PolChunk]
PolSuppliesExec(m) == m # NOMAP /\ mem_exec[PolChunk].buf = m
PolOwnsRead(m) == m # NOMAP /\ read_mapping[PolChunk] = m
PolOwnsWrite(m) == m # NOMAP /\ write_mapping[PolChunk] = m

\* C24: for the mapping registered last over a chunk, which has a read
\* accessor and an exec pointer: when the read policy that applies is
\* MEM_READ_EXTERNAL_EX, a mapping flagged INTERNAL supplies the exec
\* pointer of the chunk and is not its read owner, and a mapping flagged
\* EXTERNAL is its read owner and does not supply the exec pointer; under
\* every other read policy it supplies the exec pointer exactly when it is
\* the read owner, and the check for the exec pointer and the check for the
\* read owner give the same answer for every set of flags.
C24_ExecAndReadOwnerDecidedSeparately ==
    LET m == PolLast
        policy == IF in_smm /\ PolSt.sr # "NORMAL" THEN PolSt.sr ELSE PolSt.r
    IN  (m \in DevMaps /\ mapping[m].exec # NOEXEC) =>
          IF policy = "EXTERNAL_EX"
          THEN /\ mapping[m].flags = {"INTERNAL"}
                    => (PolSuppliesExec(m) /\ ~PolOwnsRead(m))
               /\ "EXTERNAL" \in mapping[m].flags
                    => (PolOwnsRead(m) /\ ~PolSuppliesExec(m))
          ELSE /\ PolSuppliesExec(m) <=> PolOwnsRead(m)
               /\ \A fl \in PolFlags :
                      mem_mapping_read_allowed(fl, PolSt, TRUE)
                          = mem_mapping_read_allowed(fl, PolSt, FALSE)

\* a mapping flagged INTERNAL supplies the exec pointer of the window and
\* the window has no read owner
C24_Witness ==
    /\ PolLast \in DevMaps
    /\ mapping[PolLast].flags = {"INTERNAL"}
    /\ PolSt.r = "EXTERNAL_EX" /\ ~in_smm
    /\ PolSuppliesExec(PolLast)
    /\ read_mapping[PolChunk] = NOMAP

\* eligibility of a mapping with flags fl under a policy
PolEligible(policy, fl) ==
    CASE policy = "ANY" -> TRUE
      [] policy \in {"EXTERNAL_EX", "EXTANY"} -> "INTERNAL" \notin fl
      [] policy = "EXTERNAL" -> "INTERNAL" \notin fl /\ "ROMCS" \notin fl
      [] policy = "ROMCS" -> "INTERNAL" \notin fl /\ "ROMCS" \in fl
      [] policy = "INTERNAL" -> "EXTERNAL" \notin fl
      [] OTHER -> FALSE

\* C25: the mapping registered last over a chunk, which has read and write
\* accessors, is the read (write) owner of the chunk exactly when its flags
\* are eligible under the chunk's SMM read (write) policy if the CPU is in
\* system-management mode and that policy is not NORMAL, and under the
\* chunk's normal read (write) policy in every other case.
C25_SmmPolicyDecidesInSmmOnly ==
    LET m == PolLast
        rpol == IF in_smm /\ PolSt.sr # "NORMAL" THEN PolSt.sr ELSE PolSt.r
        wpol == IF in_smm /\ PolSt.sw # "NORMAL" THEN PolSt.sw ELSE PolSt.w
    IN  m \in DevMaps =>
          /\ PolOwnsRead(m) <=> PolEligible(rpol, mapping[m].flags)
          /\ PolOwnsWrite(m) <=> PolEligible(wpol, mapping[m].flags)

\* in system-management mode the SMM read policy admits the mapping and the
\* normal one would not, while the SMM write policy is NORMAL and the
\* normal write policy decides
C25_Witness ==
    /\ in_smm
    /\ PolLast \in DevMaps
    /\ PolSt.sr = "EXTERNAL" /\ PolSt.sw = "NORMAL"
    /\ PolSt.r = "INTERNAL" /\ PolSt.w = "INTERNAL"
    /\ mapping[PolLast].flags = {"EXTERNAL"}
    /\ PolOwnsRead(PolLast) /\ ~PolOwnsWrite(PolLast)

\* C22 as stated: every mapping whose size is 0 has its enable flag clear.
C22_EmptyMappingIsDisabled ==
    \A m \in Maps : mapping[m].size = 0 => ~mapping[m].enable

-----------------------------------------------------------------------------
(* Claims about the addresses accesses are dispatched at *)

\* linear addresses below 2 MiB: the last byte of the first MiB, the first
\* of the second, two more in the second
LowAddrs == {1048575, 1048576, 1053236, 2097151}

\* C21 as stated: with paging off, when mem_a20_recalc or mem_reset has
\* applied a disabled gate (mem_a20_key | mem_a20_alt zero), an access to a
\* linear address a below 2 MiB is dispatched at a & 0xFFFFF; when
\* mem_a20_recalc has applied an enabled gate (mem_a20_key or mem_a20_alt
\* set), it is dispatched at a.
C21_GateDecidesDispatchAddress ==
    \A a \in LowAddrs :
        /\ ( /\ last.op \in {"mem_a20_recalc", "mem_reset"}
             /\ BitOr(mem_a20_key, mem_a20_alt) = 0 )
               => AndMask(a, rammask, 0) = a % 1048576
        /\ ( /\ last.op = "mem_a20_recalc"
             /\ BitOr(mem_a20_key, mem_a20_alt) # 0 )
               => AndMask(a, rammask, 0) = a

\* C29 as stated: a step that is mem_mapping_recalc(base, size) leaves the
\* read owner, the write owner and the exec pointer of every chunk outside
\* [base, base + size) as they were.
C29_RecalcKeepsChunksOutsideRange ==
    [][ \A base \in RegBases, size \in RegSizes :
          RegStep(mem_mapping_recalc(Machine, base, size),
                  "mem_mapping_recalc", NOMAP, {size})
            => \A c \in RegChunks :
                  (c < base \/ c >= base + size)
                    => /\ read_mapping'[c] = read_mapping[c]
                       /\ write_mapping'[c] = write_mapping[c]
                       /\ mem_exec'[c] = mem_exec[c] ]_vars

\* the read and the write owner chunk c would have with mapping m absent
ReadOwnerWithout(m, c) ==
    LastOf({n \in Maps \ {m} : Candidate(n, c) /\ OffersRead(n, c)})
WriteOwnerWithout(m, c) ==
    LastOf({n \in Maps \ {m} : Candidate(n, c) /\ OffersWrite(n, c)})

\* after the step, m owns no chunk among cs and supplies no exec pointer
\* there (told from the other device's when that one has none)
ReleasedAfter(m, cs) ==
    \A c \in cs :
        /\ read_mapping'[c] # m
        /\ write_mapping'[c] # m
        /\ (\A n \in DevMaps \ {m} : mapping[n].exec = NOEXEC)
              => mem_exec'[c].buf # "dev"

\* C23 as stated: a step that is mem_mapping_del(m) leaves m unlinked and
\* owner or exec source of no chunk; a step that is
\* mem_mapping_set_addr(m, base, size) leaves m owner or exec source of no
\* chunk outside [base, base + size), and every chunk of m's old range
\* outside the new one with the read and the write owner it would have with
\* m absent.
C23_DelAndSetAddrReleaseChunks ==
    [][ /\ \A m \in DevMaps :
              RegStep(mem_mapping_del(Machine, m), "mem_mapping_del", m,
                      {mapping[m].size})
                => /\ ~IsLinked(m)'
                   /\ ReleasedAfter(m, RegChunks)
        /\ \A m \in DevMaps, base \in RegBases, size \in RegSizes :
              RegStep(mem_mapping_set_addr(Machine, m, base, size),
                      "mem_mapping_set_addr", m, {mapping[m].size, size})
                => LET Outside == {c \in RegChunks : c < base \/ c >= base + size}
                   IN  /\ ReleasedAfter(m, Outside)
                       /\ \A c \in Outside :
                              Covers(m, c) =>
                                 /\ read_mapping'[c] = ReadOwnerWithout(m, c)'
                                 /\ write_mapping'[c] = WriteOwnerWithout(m, c)'
      ]_vars

-----------------------------------------------------------------------------
(* Claims about the eviction list as a whole *)

\* the pages met by following evict_next from page h, in order
RECURSIVE EvictSeq(_, _, _)
EvictSeq(pg, h, fuel) ==
    IF h = 0 \/ fuel = 0 THEN << >>
    ELSE << h >> \o EvictSeq(pg, pg[h].evict_next, fuel - 1)

EvictOrder == EvictSeq(pages, purgable_page_list_head, Cardinality(DOMAIN pages) + 1)

\* C28 as stated: a step that is page_remove_from_evict_list(p) for a page p
\* that is not reached from purgable_page_list_head along evict_next ends
\* the process and leaves the list head, the count and every page's links
\* as they were.
C28_RemoveOfAbsentPageAborts ==
    [][ \A p \in PagePages :
          (p \notin EvictList /\ last'.op = "remove" /\ last'.p = p
             /\ nops' = nops + 1)
            => /\ focus' = "fatal"
               /\ purgable_page_list_head' = purgable_page_list_head
               /\ purgeable_page_count' = purgeable_page_count
               /\ pages' = pages ]_vars

\* C30 as stated: following evict_next from purgable_page_list_head visits
\* exactly the pages for which page_in_evict_list holds, each once,
\* purgeable_page_count is their number, and the evict_prev of each visited
\* page names the page visited before it, 0 for the first.
C30_EvictListWellFormed ==
    /\ { EvictOrder[i] : i \in 1 .. Len(EvictOrder) }
          = { p \in DOMAIN pages : page_in_evict_list(Mem, p) }
    /\ \A i, j \in 1 .. Len(EvictOrder) : EvictOrder[i] = EvictOrder[j] => i = j
    /\ purgeable_page_count = Len(EvictOrder)
    /\ \A i \in 1 .. Len(EvictOrder) :
          pages[EvictOrder[i]].evict_prev = IF i = 1 THEN 0 ELSE EvictOrder[i - 1]

-----------------------------------------------------------------------------
(* Claims about the physical accessors *)

\* a translation is cached
PhysCached ==
    \E v \in TlbPages :
        readlookup2[v] # EMPTY \/ writelookup2[v] # EMPTY \/ page_lookup[v] # NULLPAGE

\* C27: a step that is a physical read or write of any width leaves both
\* translation caches, their ring positions and page_lookup as they were,
\* leaves the abort state as it was and changes no paging-structure entry:
\* a read changes no byte of RAM and a write only bytes it addresses.
C27_PhysicalAccessLeavesCachesAlone ==
    [][ last'.op \in {"phys_read", "phys_write"} /\ nops' = nops + 1
          => /\ TLB' = TLB
             /\ <<abrt, cr2, abrt_error>>' = <<abrt, cr2, abrt_error>>
             /\ \A a \in AccCells :
                   ram'[a] # ram[a] =>
                       /\ last'.op = "phys_write"
                       /\ a >= last'.addr /\ a < last'.addr + last'.w ]_vars

\* a physical read went to the RAM accessor, the exec pointer of the chunk
\* being null, with paging off while a translation was cached
C27_Witness ==
    /\ last.op = "phys_read"
    /\ mem_exec[ChunkOf(last.addr)] = NOEXEC
    /\ read_mapping[ChunkOf(last.addr)] = "ram_low"
    /\ PhysCached
    /\ mem_logical_addr = NO_LOGICAL


-----------------------------------------------------------------------------
(* Claims about accesses wider than the owner's accessors                  *)

\* the masked physical address of the last access, its owner and the widest
\* accessor of the owner that is narrower than the access
DevP == AndMask(last.phys, rammask, 0)
DevOwner ==
    IF last.op = "read" THEN read_mapping[ChunkOf(DevP)]
    ELSE write_mapping[ChunkOf(DevP)]
DevNarrow == CHOOSE n \in DevWidths(DevOwner) :
                 /\ n < last.w
                 /\ \A k \in DevWidths(DevOwner) : k < last.w => k <= n
DevPieces == { i \in 0 .. last.w - 1 : i % DevNarrow = 0 }

\* the access of the last step reached a device that lacks the accessor of
\* its width
DevFallsBack ==
    /\ last.op \in {"read", "write"}
    /\ ~last.pre.abrt
    /\ last.phys # FAULT
    /\ DevOwner \in DevMaps
    /\ last.w \notin DevWidths(DevOwner)

\* C26 as stated: an access that reaches a device without the accessor of
\* its width makes exactly the calls of the widest narrower accessor at the
\* consecutive addresses p, p + n, ... of the access, a read returns the
\* device's bytes at p, p + 1, ... lowest first, and a write hands the
\* pieces of the value over lowest first.
C26_NarrowerAccessorsAtConsecutiveAddresses ==
    DevFallsBack =>
        /\ last.op = "read" =>
              /\ last.val = [i \in 1 .. last.w |-> DevByte(DevP + i - 1)]
              /\ last.reads = { [addr |-> DevP + i, w |-> DevNarrow] : i \in DevPieces }
              /\ last.writes = << >>
        /\ last.op = "write" =>
              /\ last.reads = {}
              /\ Len(last.writes) = last.w \div DevNarrow
              /\ \A j \in 1 .. Len(last.writes) :
                    /\ last.writes[j].addr = DevP + (j - 1) * DevNarrow
                    /\ last.writes[j].val =
                          SubSeq(last.val, (j - 1) * DevNarrow + 1, j * DevNarrow)


-----------------------------------------------------------------------------
(* Claims about the caches and the privilege level                         *)

\* C31 as stated: an access that the walk refuses in the state it is made
\* in, no abort pending, raises a page fault, whether or not a cache holds
\* the page.
C31_CachedAccessIsCheckedAgain ==
    (last.op \in {"read", "write"} /\ last.refused /\ ~last.pre.abrt) => abrt


\* C32 as stated: after mem_flush_write_page(phys, virt), also as the
\* recompiler calls it, no virtual page has a writelookup2 entry that is a
\* host pointer into the physical page of phys, and none has a page_lookup
\* entry that is the page entry of phys.
C32_FlushWritePageLeavesNoWriteEntry ==
    last.op \in {"mem_flush_write_page", "codegen_block_init"} =>
        \A v \in TlbPages :
            /\ writelookup2[v] # EMPTY =>
                   writelookup2[v] + 4096 * v # PageBase(last.phys)
            /\ page_lookup[v] # PageOf(last.phys)


\* the position of mapping m in the list lst, 0 when it is not in it
PosIn(lst, m) ==
    IF \E i \in 1 .. Len(lst) : lst[i] = m
    THEN CHOOSE i \in 1 .. Len(lst) : lst[i] = m /\ \A j \in 1 .. i - 1 : lst[j] # m
    ELSE 0

\* C33 as stated: a step that is mem_mapping_add keeps every mapping linked
\* that was linked before it, in the same relative order, and leaves a list
\* in which no mapping occurs twice.
C33_AddKeepsOtherMappingsLinked ==
    [][ (last'.op = "mem_mapping_add" /\ nops' = nops + 1)
          => /\ \A i \in 1 .. Len(Linked(Machine)) :
                   PosIn(Linked(Machine)', Linked(Machine)[i]) # 0
             /\ \A i \in 1 .. Len(Linked(Machine)), j \in 1 .. Len(Linked(Machine)) :
                   i < j => PosIn(Linked(Machine)', Linked(Machine)[i])
                              < PosIn(Linked(Machine)', Linked(Machine)[j])
             /\ \A i \in 1 .. Len(Linked(Machine)'), j \in 1 .. Len(Linked(Machine)') :
                   i # j => Linked(Machine)'[i] # Linked(Machine)'[j] ]_vars


-----------------------------------------------------------------------------
(* Claims about the A20 gate's recorded state                              *)

\* C34 as stated: on an AT-class machine the RAM mask has address bit 20
\* exactly when mem_a20_state is nonzero, in every state, and when
\* mem_a20_recalc has run mem_a20_state is mem_a20_key | mem_a20_alt.
C34_MaskBit20FollowsGateState ==
    AT => /\ (20 \in rammask) <=> (mem_a20_state # 0)
          /\ last.op = "mem_a20_recalc" =>
                 mem_a20_state = BitOr(mem_a20_key, mem_a20_alt)

-----------------------------------------------------------------------------
(* Claims about the dirty masks of the page write handlers                  *)

\* C35 as stated: after a page write handler call of width W at offset o
\* that changes memory and ends inside the page, the dirty bit of every
\* sub-block holding one of the bytes o .. o+W-1 is set.
C35_EverySubBlockWrittenIsDirty ==
    (last.op = "write" /\ last.acts /\ last.o + last.w <= 4096) =>
        \A i \in 0 .. last.w - 1 :
            SubBlockOf(4096 * last.p + last.o + i) \in pages[last.p].dirty_mask

-----------------------------------------------------------------------------
(* Claims about the physical accessors                                     *)

\* C36 as stated: a physical write to a chunk without a write owner changes
\* no RAM byte, and a physical read of a chunk without a read owner returns
\* all ones, whether or not the chunk has an exec pointer.
C36_UnownedChunkReadsOnesAndDropsWrites ==
    /\ (last.op = "phys_write" /\ write_mapping[ChunkOf(last.addr)] = NOMAP)
           => last.changed = {}
    /\ (last.op = "phys_read" /\ read_mapping[ChunkOf(last.addr)] = NOMAP)
           => last.val = AllOnes(last.w)

\* C37 as stated: mem_read_phys leaves in dest the n bytes found at addr,
\* for n = 1, 2 and 4, and a mem_read_phys that follows a mem_write_phys of
\* the same address and size on RAM leaves in dest what src held.
C37_BulkReadReturnsWhatBulkWriteStored ==
    [][ last'.op = "bulk_read" =>
          /\ last'.val = RamRead(ram', last'.addr, last'.w)
          /\ (last.op = "bulk_write" /\ last.addr = last'.addr
                /\ last.w = last'.w) => last'.val = last.val ]_vars

-----------------------------------------------------------------------------
(* Claims about the loop of mem_invalidate_range                           *)

\* C38 as stated: every call of mem_invalidate_range with start <= end
\* returns, also when the range ends in the last 128 bytes of the 32-bit
\* address space.
C38_InvalidateRangeReturns ==
    (last.op = "loop") ~> (last.op = "done")

-----------------------------------------------------------------------------
(* Claims about the FIFO of the CMI8330 DMA channels                       *)

\* C39 as stated: every FIFO operation uses only the indices 0..15 of the
\* FIFO array, and the bytes leave the FIFO in the order they entered: the
\* k-th byte taken out is the k-th byte put in.
C39_FifoStaysInsideArrayAndInOrder ==
    /\ last.idx \subseteq 0 .. CMI_FIFO_SZ - 1
    /\ \A j \in 1 .. Len(last.out) : last.out[j] = Tag(last.pre.fifo_pos + j - 1)

\* C40 as stated: the FIFO holds between 0 and 16 bytes in every state; an
\* operation takes out no more bytes than the FIFO held and puts in bytes
\* only when all the bytes it puts in fit; a Sound Blaster DMA read of an
\* empty FIFO returns all ones and leaves the channel as it was.
C40_FifoLevelStaysWithinBounds ==
    /\ 0 <= FifoLevel(dma) /\ FifoLevel(dma) <= CMI_FIFO_SZ
    /\ Len(last.out) = dma.fifo_pos - last.pre.fifo_pos
    /\ Len(last.out) <= FifoLevel(last.pre)
    /\ dma.fifo_end >= last.pre.fifo_end
    /\ FifoLevel(last.pre) + (dma.fifo_end - last.pre.fifo_end) <= CMI_FIFO_SZ
    /\ (last.op \in {"cmi8330_sb_dma_readb", "cmi8330_sb_dma_readw"}
          /\ FifoLevel(last.pre) = 0)
         => /\ dma = last.pre
            /\ \A j \in 1 .. Len(last.val) : last.val[j] = 255

\* a word written by the Sound Blaster DSP into a FIFO with room for one byte
C40_Witness ==
    /\ last.op = "cmi8330_sb_dma_writew"
    /\ FifoLevel(last.pre) = CMI_FIFO_SZ - 1
    /\ FifoLevel(dma) = CMI_FIFO_SZ

=========================================================================
